---- MODULE Spec2Model ----
(***************************************************************************)
(* H5 (Three-Wire UART) transport of pc-ble-driver: the link-layer state   *)
(* machine, the reliable sender, the packet dispatcher and the public API  *)
(* of src/src/common/transport/h5_transport.cpp, over either an arbitrary  *)
(* lower transport (any packet may arrive at any time) or two instances    *)
(* paired through the VirtualUart of src/test/virtual_uart.h.              *)
(*                                                                         *)
(* Threads of one instance: the state-machine thread (worker), the thread  *)
(* calling open()/close() (api), the threads calling send() (sender) and   *)
(* the lower transport's callback thread (processPacket, statusHandler).   *)
(* A step is a maximal piece of code between two points where the thread   *)
(* can block (a condition wait, a join) or where another thread's write    *)
(* between two statements changes the outcome; stateMachineMutex and       *)
(* ackMutex are held only inside such steps (the waits release them), so   *)
(* each critical section is one step.                                      *)
(***************************************************************************)
EXTENDS Integers, Sequences, FiniteSets, TLC

VARIABLES
    paired,            \* lower transports are two VirtualUarts set as each other's peer
    timed,             \* timed waits run against a clock (else a timeout may fire at any time)
    currentState,      \* H5Transport::currentState
    exitCriterias,     \* H5Transport::exitCriterias, one record per state
    seqNum,            \* H5Transport::seqNum
    ackNum,            \* H5Transport::ackNum
    lastPacket,        \* H5Transport::lastPacket (<<>> when cleared, else <<frame>>)
    stateMachineReady, \* H5Transport::stateMachineReady
    worker,            \* the state-machine thread
    api,               \* the thread calling open() and close()
    sender,            \* the threads calling send()
    lowerOpen,         \* the lower transport is open (VirtualUart::isOpen)
    upperCb,           \* upper callbacks registered (Transport::open / Transport::close)
    wire,              \* VirtualUart::outData of each instance, in order
    testSetup,         \* H5TransportTestSetup: payloads its dataCallback was handed and
                       \* the results its calls returned
    out,               \* what the last step handed to the lower transport and the upper callbacks
    crashed,           \* the process was terminated (std::terminate, null dereference)
    callback,          \* the lower transport's thread calling dataHandler
    opener,            \* another thread calling open()
    ioSeen,            \* an IO resource error was reported to this instance
    c0Found,           \* H5Transport::c0Found
    unprocessedData,   \* H5Transport::unprocessedData
    byteFeed,          \* the bytes a lower transport delivers: the stream, how much of
                       \* it each instance was handed in how many calls of dataHandler,
                       \* and the framed packets each dataHandler passed on
    recognition,       \* packet_recognition: a call of checkPattern and its result
    uart,              \* VirtualUart of each instance: where its outDataThread and its
                       \* inDataThread are, and its inData
    errorPacketCount   \* H5Transport::errorPacketCount

vars == <<paired, timed, currentState, exitCriterias, seqNum, ackNum, lastPacket,
          stateMachineReady, worker, api, sender, lowerOpen, upperCb, wire,
          testSetup, out, crashed, callback, opener, ioSeen,
          c0Found, unprocessedData, byteFeed, recognition, uart, errorPacketCount>>

\* the variables of the byte level; the steps of the threads above leave them alone
ByteVars == <<c0Found, unprocessedData, byteFeed, recognition, errorPacketCount>>

----------------------------------------------------------------------------
(* Bounds of the model *)

\* send() calls each side of the test setup makes
MaxSends == 2
\* threads calling send() on one instance
NumSenders == 2
\* distinct payloads handed to send()
NumPayloads == 1
\* the highest seqNum an arbitrary lower transport acknowledges up to
MaxSeqNum == 1
\* the highest ackNum an arbitrary lower transport sends reliable frames up to
MaxAckNum == 2
\* length of the byte stream handed to dataHandler
MaxStream == 6
\* lengths of the packets and of the patterns handed to checkPattern
MaxPacketLen == 4
MaxPatternLen == 2
\* times a state-machine thread that runs ahead of the threads of its VirtualUart
\* sends its SYNC again
MaxLag == 1
\* packets that fail to decode
MaxErrors == 2

(* Program constants *)

\* one retransmission fewer than PACKET_RETRANSMISSIONS
FewerRetransmissions == 6 - 1
PACKET_RETRANSMISSIONS == 6
NON_ACTIVE_STATE_TIMEOUT == 250
OPEN_WAIT_TIMEOUT == 2000
RESET_WAIT_DURATION == 300
retransmissionInterval == 250

SyncFirstByte == 1
SyncSecondByte == 126
SyncRspFirstByte == 2
SyncRspSecondByte == 125
SyncConfigFirstByte == 3
SyncConfigSecondByte == 252
SyncConfigRspFirstByte == 4
SyncConfigRspSecondByte == 123
SyncConfigField == 17

Inst == {"A", "B"}
Peer(i) == IF i = "A" THEN "B" ELSE "A"
Senders == 1..NumSenders
Payloads == {<<170 + k>> : k \in 0..(NumPayloads - 1)}

STATE_START == "STATE_START"
STATE_RESET == "STATE_RESET"
STATE_UNINITIALIZED == "STATE_UNINITIALIZED"
STATE_INITIALIZED == "STATE_INITIALIZED"
STATE_ACTIVE == "STATE_ACTIVE"
STATE_FAILED == "STATE_FAILED"
STATE_CLOSED == "STATE_CLOSED"

\* the states setupStateMachine gives an exit-criteria record
ExitStates == {STATE_START, STATE_RESET, STATE_UNINITIALIZED, STATE_INITIALIZED, STATE_ACTIVE}
States == ExitStates \cup {STATE_FAILED, STATE_CLOSED}

NRF_SUCCESS == "NRF_SUCCESS"
NRF_ERROR_INTERNAL == "NRF_ERROR_INTERNAL"
NRF_ERROR_INVALID_STATE == "NRF_ERROR_INVALID_STATE"
NRF_ERROR_TIMEOUT == "NRF_ERROR_TIMEOUT"
NoResult == "none"

----------------------------------------------------------------------------
(* Packets *)

pkt_pattern(type) ==
    CASE type = "CONTROL_PKT_SYNC" -> <<SyncFirstByte, SyncSecondByte>>
      [] type = "CONTROL_PKT_SYNC_RESPONSE" -> <<SyncRspFirstByte, SyncRspSecondByte>>
      [] type = "CONTROL_PKT_SYNC_CONFIG" ->
             <<SyncConfigFirstByte, SyncConfigSecondByte, SyncConfigField>>
      [] type = "CONTROL_PKT_SYNC_CONFIG_RESPONSE" ->
             <<SyncConfigRspFirstByte, SyncConfigRspSecondByte, SyncConfigField>>
      [] OTHER -> <<>>

\* the loop of checkPattern: packetItr is the number of entries of the packet
\* before the iterator, pattern what is left of the pattern
RECURSIVE checkPatternLoop(_, _, _)
checkPatternLoop(packet, packetItr, pattern) ==
    IF pattern = <<>> THEN TRUE
    ELSE IF packetItr = Len(packet) THEN FALSE
    ELSE IF packet[packetItr + 1] # Head(pattern) THEN FALSE
    ELSE checkPatternLoop(packet, packetItr + 1, Tail(pattern))

\* a variant of checkPattern that takes a pattern cut short by the end of the
\* packet for a match
checkPatternCutShort(packet, offset, pattern) ==
    /\ offset < Len(packet)
    /\ \A k \in 1..Len(pattern) :
           offset + k <= Len(packet) => packet[offset + k] = pattern[k]

\* offset is a uint8_t
checkPattern(packet, offset, pattern) ==
    IF offset >= Len(packet) THEN FALSE
    ELSE checkPatternLoop(packet, offset, pattern)

isSyncPacket(packet, offset) ==
    checkPattern(packet, offset, <<SyncFirstByte, SyncSecondByte>>)
isSyncResponsePacket(packet, offset) ==
    checkPattern(packet, offset, <<SyncRspFirstByte, SyncRspSecondByte>>)
isSyncConfigPacket(packet, offset) ==
    checkPattern(packet, offset, <<SyncConfigFirstByte, SyncConfigSecondByte>>)
isSyncConfigResponsePacket(packet, offset) ==
    checkPattern(packet, offset, <<SyncConfigRspFirstByte, SyncConfigRspSecondByte>>)

\* the fields h5_encode is given; the header and SLIP codecs are external
Frame(type, seq, ack, reliable, payload) ==
    [type |-> type, seq |-> seq, ack |-> ack, reliable |-> reliable, payload |-> payload]

\* the frame send(data) encodes
DataFrame(i, data) ==
    Frame("VENDOR_SPECIFIC_PACKET", seqNum[i], ackNum[i], TRUE, data)

\* a variant of incrementSeqNum without the mask
incrementSeqNumUnmasked(n) == n + 1
incrementSeqNum(n) == (n + 1) % 8

\* a variant of incrementAckNum that leaves the number as it is
incrementAckNumStuck(n) == n
incrementAckNum(n) == (n + 1) % 8

\* packets an arbitrary lower transport can deliver (already SLIP- and H5-decoded),
\* with every acknowledge number the capped seqNum can tell apart
EnvPackets ==
    {Frame("LINK_CONTROL_PACKET", 0, 0, FALSE, p) :
        p \in {pkt_pattern("CONTROL_PKT_SYNC"), pkt_pattern("CONTROL_PKT_SYNC_RESPONSE"),
               pkt_pattern("CONTROL_PKT_SYNC_CONFIG"),
               pkt_pattern("CONTROL_PKT_SYNC_CONFIG_RESPONSE"), <<5, 250>>}}
    \cup {Frame("VENDOR_SPECIFIC_PACKET", 0, 0, FALSE, p) : p \in Payloads}
    \cup {Frame("ACK_PACKET", 0, a, FALSE, <<>>) : a \in 0..(MaxSeqNum + 2)}
    \cup {Frame("HCI_EVENT_PACKET", 0, 0, FALSE, <<>>)}

\* reliable data frames an arbitrary lower transport can deliver, with every
\* sequence number the capped ackNum can tell apart
DataPackets ==
    {Frame("VENDOR_SPECIFIC_PACKET", s, 0, TRUE, p) :
        s \in 0..(MaxAckNum + 1), p \in Payloads}

----------------------------------------------------------------------------
(* Exit criteria *)

ExitCriteriasReset(s) ==
    CASE s = STATE_START ->
             [ioResourceError |-> FALSE, close |-> FALSE, isOpened |-> FALSE]
      [] s = STATE_RESET ->
             [ioResourceError |-> FALSE, close |-> FALSE,
              resetSent |-> FALSE, resetWait |-> FALSE]
      [] s = STATE_UNINITIALIZED ->
             [ioResourceError |-> FALSE, close |-> FALSE,
              syncSent |-> FALSE, syncRspReceived |-> FALSE]
      [] s = STATE_INITIALIZED ->
             [ioResourceError |-> FALSE, close |-> FALSE,
              syncConfigSent |-> FALSE, syncConfigRspReceived |-> FALSE]
      [] s = STATE_ACTIVE ->
             [ioResourceError |-> FALSE, close |-> FALSE,
              syncReceived |-> FALSE, irrecoverableSyncError |-> FALSE]

isFullfilled(s, e) ==
    \/ e.ioResourceError
    \/ e.close
    \/ CASE s = STATE_START -> e.isOpened
         [] s = STATE_RESET -> e.resetSent /\ e.resetWait
         [] s = STATE_UNINITIALIZED -> e.syncSent /\ e.syncRspReceived
         [] s = STATE_INITIALIZED -> e.syncConfigSent /\ e.syncConfigRspReceived
         [] s = STATE_ACTIVE -> e.syncReceived \/ e.irrecoverableSyncError

----------------------------------------------------------------------------
(* Initial state: two constructed instances, nothing opened *)

\* the timer value of a thread that is in no timed wait
NoTimer == 0 - 1

NoRet == [op |-> "none", result |-> NoResult]
NoOut == [inst |-> "-", tx |-> <<>>, data |-> <<>>, status |-> <<>>, ret |-> NoRet]

WorkerInit ==
    [pc |-> "off", nextState |-> STATE_START, syncRetransmission |-> 0,
     woken |-> FALSE, timer |-> NoTimer, txCount |-> 0, statusCount |-> 0]

ApiInit == [pc |-> "idle", timer |-> NoTimer, closeFrom |-> "none"]

\* the callback thread is outside processPacket ("idle"), between incrementAckNum
\* and the acknowledgement of a frame it accepted ("ack"), or between the
\* comparison of an ack number and incrementSeqNum ("seq")
CallbackInit == [pc |-> "idle", payload |-> <<>>]

\* where another thread calling open() is: outside open() ("idle"), past the check
\* of currentState ("start"), past the check of joinable() ("create"), or past
\* the construction of a std::thread that it has yet to assign ("assign", thread)
OpenerInit == [pc |-> "idle", thread |-> FALSE]

SenderInit ==
    [pc |-> "idle", remainingRetransmissions |-> 0, seqNumBefore |-> 0,
     timer |-> NoTimer, seqAtCall |-> 0]

\* a VirtualUart whose threads wait (outDataAvailable.wait, inDataAvailable.wait)
\* or were not started, with nothing in inData
UartInit == [outDataThread |-> "wait", inDataThread |-> "wait", inData |-> <<>>]

\* no byte stream to deliver
NoFeed == [bytes |-> <<>>, fed |-> [i \in Inst |-> 0], calls |-> [i \in Inst |-> 0],
           framed |-> [i \in Inst |-> <<>>]]

\* no call of checkPattern
NoRecognition ==
    [packet |-> <<>>, offset |-> 0, pattern |-> <<>>, called |-> FALSE, result |-> FALSE]

InitCommon ==
    /\ currentState = [i \in Inst |-> STATE_START]
    /\ exitCriterias = [i \in Inst |-> [s \in ExitStates |-> ExitCriteriasReset(s)]]
    /\ seqNum = [i \in Inst |-> 0]
    /\ ackNum = [i \in Inst |-> 0]
    /\ lastPacket = [i \in Inst |-> <<>>]
    /\ stateMachineReady = [i \in Inst |-> FALSE]
    /\ worker = [i \in Inst |-> WorkerInit]
    /\ api = [i \in Inst |-> ApiInit]
    /\ sender = [i \in Inst |-> [t \in Senders |-> SenderInit]]
    /\ lowerOpen = [i \in Inst |-> FALSE]
    /\ upperCb = [i \in Inst |-> FALSE]
    /\ wire = [i \in Inst |-> <<>>]
    /\ testSetup = [i \in Inst |-> [incoming |-> <<>>, open |-> <<>>, send |-> <<>>,
                                     close |-> <<>>]]
    /\ out = NoOut
    /\ crashed = [i \in Inst |-> FALSE]
    /\ callback = [i \in Inst |-> CallbackInit]
    /\ opener = [i \in Inst |-> OpenerInit]
    /\ ioSeen = [i \in Inst |-> FALSE]
    /\ c0Found = [i \in Inst |-> FALSE]
    /\ unprocessedData = [i \in Inst |-> <<>>]
    /\ uart = [i \in Inst |-> UartInit]
    /\ errorPacketCount = [i \in Inst |-> 0]

Init ==
    /\ paired = FALSE
    /\ timed = FALSE
    /\ byteFeed = NoFeed
    /\ recognition = NoRecognition
    /\ InitCommon

----------------------------------------------------------------------------
(* Helpers shared by the steps *)

\* stateMachineChange.notify_all(): a state-machine thread blocked in a wait is woken
NotifyStateMachineChange(w) == IF w.pc = "wait" THEN [w EXCEPT !.woken = TRUE] ELSE w

\* the deadline of a timed wait
Arm(d) == IF timed THEN d ELSE 0

\* VirtualUart::send: the frame is queued unless the port is closed; the port's
\* outDataThread ignores RESET frames
Xmit(w, i, f) ==
    IF paired /\ lowerOpen[i] /\ f.type # "RESET_PACKET"
    THEN [w EXCEPT ![i] = Append(@, f)]
    ELSE w

Out(i, tx, data, status) ==
    IF tx = <<>> /\ data = <<>> /\ status = <<>>
    THEN NoOut
    ELSE [inst |-> i, tx |-> tx, data |-> data, status |-> status, ret |-> NoRet]

\* a call of the public API returns result
Return(i, op, result) ==
    [inst |-> i, tx |-> <<>>, data |-> <<>>, status |-> <<>>,
     ret |-> [op |-> op, result |-> result]]

\* H5TransportTestSetup keeps what its calls returned
Record(i, op, result) ==
    IF paired THEN [testSetup EXCEPT ![i][op] = Append(@, result)] ELSE testSetup

\* statusHandler forwards a code to the upper status callback when one is registered
UpperStatus(i, code) == IF upperCb[i] THEN <<code>> ELSE <<>>

sendControlPacket(type, ack) ==
    Frame(CASE type = "CONTROL_PKT_RESET" -> "RESET_PACKET"
            [] type = "CONTROL_PKT_ACK" -> "ACK_PACKET"
            [] OTHER -> "LINK_CONTROL_PACKET",
          0,
          IF type = "CONTROL_PKT_ACK" THEN ack ELSE 0,
          FALSE,
          pkt_pattern(type))

EmptyFrame == Frame("EMPTY", 0, 0, FALSE, <<>>)
LastPacketFrame(i) == IF lastPacket[i] = <<>> THEN EmptyFrame ELSE lastPacket[i][1]

Running(i) == ~crashed[i]

\* std::terminate or a write through a null pointer ends the process: every thread
\* stops where it is and no other state of either instance outlives it
TerminateWith(state) ==
    /\ crashed' = [i \in Inst |-> TRUE]
    /\ callback' = [i \in Inst |-> CallbackInit]
    /\ opener' = [i \in Inst |-> OpenerInit]
    /\ currentState' = state
    /\ exitCriterias' = [i \in Inst |-> [s \in ExitStates |-> ExitCriteriasReset(s)]]
    /\ seqNum' = [i \in Inst |-> 0]
    /\ ackNum' = [i \in Inst |-> 0]
    /\ lastPacket' = [i \in Inst |-> <<>>]
    /\ stateMachineReady' = [i \in Inst |-> FALSE]
    /\ worker' = [i \in Inst |-> WorkerInit]
    /\ api' = [i \in Inst |-> ApiInit]
    /\ sender' = [i \in Inst |-> [t \in Senders |-> SenderInit]]
    /\ lowerOpen' = [i \in Inst |-> FALSE]
    /\ upperCb' = [i \in Inst |-> FALSE]
    /\ wire' = [i \in Inst |-> <<>>]
    /\ out' = NoOut
    /\ ioSeen' = [i \in Inst |-> FALSE]
    /\ uart' = [i \in Inst |-> UartInit]
    /\ UNCHANGED <<ByteVars, paired, timed, testSetup>>

Terminate == TerminateWith(currentState)

Joinable(i) == worker[i].pc \notin {"off", "joined"}

----------------------------------------------------------------------------
(* The state-machine thread: stateActions and stateMachineWorker *)

\* "Order is of importance when returning state"
StartNextState(e) ==
    IF e.ioResourceError THEN STATE_FAILED
    ELSE IF e.close THEN STATE_CLOSED
    ELSE IF e.isOpened THEN STATE_RESET
    ELSE STATE_FAILED

ResetNextState(e) ==
    IF e.ioResourceError THEN STATE_FAILED
    ELSE IF e.close THEN STATE_CLOSED
    ELSE IF e.resetSent /\ e.resetWait THEN STATE_UNINITIALIZED
    ELSE STATE_FAILED

\* a variant of UninitializedNextState that tests close before ioResourceError
UninitializedNextStateCloseFirst(e) ==
    IF e.close THEN STATE_CLOSED
    ELSE IF e.ioResourceError THEN STATE_FAILED
    ELSE IF e.syncSent /\ e.syncRspReceived THEN STATE_INITIALIZED
    ELSE STATE_FAILED

UninitializedNextState(e) ==
    IF e.ioResourceError THEN STATE_FAILED
    ELSE IF e.close THEN STATE_CLOSED
    ELSE IF e.syncSent /\ e.syncRspReceived THEN STATE_INITIALIZED
    ELSE STATE_FAILED

InitializedNextState(e) ==
    IF e.ioResourceError THEN STATE_FAILED
    ELSE IF e.close THEN STATE_CLOSED
    ELSE IF e.syncConfigSent /\ e.syncConfigRspReceived THEN STATE_ACTIVE
    ELSE STATE_FAILED

\* a variant of ActiveNextState that skips the RESET state after a peer restart
ActiveNextStateSkippingReset(e) ==
    IF e.ioResourceError THEN STATE_FAILED
    ELSE IF e.close THEN STATE_CLOSED
    ELSE IF e.syncReceived \/ e.irrecoverableSyncError THEN STATE_UNINITIALIZED
    ELSE STATE_FAILED

ActiveNextState(e) ==
    IF e.ioResourceError THEN STATE_FAILED
    ELSE IF e.close THEN STATE_CLOSED
    ELSE IF e.syncReceived \/ e.irrecoverableSyncError THEN STATE_RESET
    ELSE STATE_FAILED

\* variables no state-machine step writes
WorkerFrame == <<ByteVars, uart, opener, paired, timed, lastPacket, api, sender, lowerOpen, upperCb, testSetup,
                 crashed, callback, ioSeen>>

\* START: reset the record, mark the state machine ready and notify
StartEnter(i) ==
    /\ Running(i) /\ worker[i].pc = "enter" /\ currentState[i] = STATE_START
    /\ exitCriterias' = [exitCriterias EXCEPT ![i][STATE_START] = ExitCriteriasReset(STATE_START)]
    /\ stateMachineReady' = [stateMachineReady EXCEPT ![i] = TRUE]
    /\ worker' = [worker EXCEPT ![i].pc = "prewait"]
    /\ out' = NoOut
    /\ UNCHANGED <<currentState, seqNum, ackNum, wire>>
    /\ UNCHANGED WorkerFrame

\* START: lock again and block in stateMachineChange.wait (do ... while)
StartBlock(i) ==
    /\ Running(i) /\ worker[i].pc = "prewait"
    /\ worker' = [worker EXCEPT ![i].pc = "wait", ![i].woken = FALSE, ![i].timer = NoTimer]
    /\ out' = NoOut
    /\ UNCHANGED <<currentState, exitCriterias, seqNum, ackNum, stateMachineReady, wire>>
    /\ UNCHANGED WorkerFrame

\* START: woken with the record fulfilled; resolve the next state
StartWake(i) ==
    /\ Running(i) /\ worker[i].pc = "wait" /\ currentState[i] = STATE_START
    /\ worker[i].woken
    /\ isFullfilled(STATE_START, exitCriterias[i][STATE_START])
    /\ worker' = [worker EXCEPT ![i].pc = "write",
                     ![i].nextState = StartNextState(exitCriterias[i][STATE_START])]
    /\ out' = NoOut
    /\ UNCHANGED <<currentState, exitCriterias, seqNum, ackNum, stateMachineReady, wire>>
    /\ UNCHANGED WorkerFrame

\* RESET: send the RESET packet, report RESET_PERFORMED, start the reset wait
ResetEnter(i) ==
    /\ Running(i) /\ worker[i].pc = "enter" /\ currentState[i] = STATE_RESET
    /\ exitCriterias' = [exitCriterias EXCEPT ![i][STATE_RESET] =
                            [ExitCriteriasReset(STATE_RESET) EXCEPT !.resetSent = TRUE]]
    /\ wire' = Xmit(wire, i, sendControlPacket("CONTROL_PKT_RESET", ackNum[i]))
    /\ out' = Out(i, <<sendControlPacket("CONTROL_PKT_RESET", ackNum[i])>>, <<>>,
                  UpperStatus(i, "RESET_PERFORMED"))
    /\ worker' = [worker EXCEPT ![i].pc = "wait", ![i].woken = FALSE,
                     ![i].timer = Arm(RESET_WAIT_DURATION),
                     ![i].txCount = 0, ![i].statusCount = 0]
    /\ UNCHANGED <<currentState, seqNum, ackNum, stateMachineReady>>
    /\ UNCHANGED WorkerFrame

\* RESET: the wait ended (fulfilled or RESET_WAIT_DURATION elapsed)
ResetWake(i) ==
    /\ Running(i) /\ worker[i].pc = "wait" /\ currentState[i] = STATE_RESET
    /\ \/ worker[i].woken /\ isFullfilled(STATE_RESET, exitCriterias[i][STATE_RESET])
       \/ worker[i].timer = 0
    /\ LET e == [exitCriterias[i][STATE_RESET] EXCEPT !.resetWait = TRUE] IN
         /\ exitCriterias' = [exitCriterias EXCEPT ![i][STATE_RESET] = e]
         /\ worker' = [worker EXCEPT ![i].pc = "write", ![i].timer = NoTimer,
                          ![i].nextState = ResetNextState(e)]
    /\ out' = NoOut
    /\ UNCHANGED <<currentState, seqNum, ackNum, stateMachineReady, wire>>
    /\ UNCHANGED WorkerFrame

\* UNINITIALIZED: reset the record and run the first pass of the SYNC loop
UninitializedEnter(i) ==
    /\ Running(i) /\ worker[i].pc = "enter" /\ currentState[i] = STATE_UNINITIALIZED
    /\ exitCriterias' = [exitCriterias EXCEPT ![i][STATE_UNINITIALIZED] =
                            [ExitCriteriasReset(STATE_UNINITIALIZED) EXCEPT !.syncSent = TRUE]]
    /\ wire' = Xmit(wire, i, sendControlPacket("CONTROL_PKT_SYNC", ackNum[i]))
    /\ out' = Out(i, <<sendControlPacket("CONTROL_PKT_SYNC", ackNum[i])>>, <<>>, <<>>)
    /\ worker' = [worker EXCEPT ![i].pc = "wait", ![i].woken = FALSE,
                     ![i].timer = Arm(NON_ACTIVE_STATE_TIMEOUT),
                     ![i].syncRetransmission = PACKET_RETRANSMISSIONS,
                     ![i].txCount = 1, ![i].statusCount = 0]
    /\ UNCHANGED <<currentState, seqNum, ackNum, stateMachineReady>>
    /\ UNCHANGED WorkerFrame

\* UNINITIALIZED: a wait ended; send SYNC again or resolve the next state
UninitializedWake(i) ==
    /\ Running(i) /\ worker[i].pc = "wait" /\ currentState[i] = STATE_UNINITIALIZED
    /\ \/ /\ worker[i].woken
          /\ isFullfilled(STATE_UNINITIALIZED, exitCriterias[i][STATE_UNINITIALIZED])
       \/ worker[i].timer = 0
    /\ LET e == exitCriterias[i][STATE_UNINITIALIZED]
           left == worker[i].syncRetransmission - 1
       IN IF ~isFullfilled(STATE_UNINITIALIZED, e) /\ left > 0
          THEN /\ exitCriterias' = [exitCriterias EXCEPT
                                       ![i][STATE_UNINITIALIZED].syncSent = TRUE]
               /\ wire' = Xmit(wire, i, sendControlPacket("CONTROL_PKT_SYNC", ackNum[i]))
               /\ out' = Out(i, <<sendControlPacket("CONTROL_PKT_SYNC", ackNum[i])>>,
                             <<>>, <<>>)
               /\ worker' = [worker EXCEPT ![i].woken = FALSE,
                                ![i].timer = Arm(NON_ACTIVE_STATE_TIMEOUT),
                                ![i].syncRetransmission = left,
                                ![i].txCount = @ + 1]
          ELSE LET maxed == UninitializedNextState(e) = STATE_FAILED
                            /\ ~e.ioResourceError /\ left <= 0
               IN /\ out' = IF maxed
                            THEN Out(i, <<>>, <<>>,
                                     UpperStatus(i, "PKT_SEND_MAX_RETRIES_REACHED"))
                            ELSE NoOut
                  /\ worker' = [worker EXCEPT ![i].pc = "write", ![i].timer = NoTimer,
                                   ![i].syncRetransmission = left,
                                   ![i].nextState = UninitializedNextState(e),
                                   ![i].statusCount = IF maxed THEN @ + 1 ELSE @]
                  /\ UNCHANGED <<exitCriterias, wire>>
    /\ UNCHANGED <<currentState, seqNum, ackNum, stateMachineReady>>
    /\ UNCHANGED WorkerFrame

\* INITIALIZED: reset the record and run the first pass of the SYNC_CONFIG loop
InitializedEnter(i) ==
    /\ Running(i) /\ worker[i].pc = "enter" /\ currentState[i] = STATE_INITIALIZED
    /\ exitCriterias' = [exitCriterias EXCEPT ![i][STATE_INITIALIZED] =
                            [ExitCriteriasReset(STATE_INITIALIZED) EXCEPT
                                !.syncConfigSent = TRUE]]
    /\ wire' = Xmit(wire, i, sendControlPacket("CONTROL_PKT_SYNC_CONFIG", ackNum[i]))
    /\ out' = Out(i, <<sendControlPacket("CONTROL_PKT_SYNC_CONFIG", ackNum[i])>>, <<>>, <<>>)
    /\ worker' = [worker EXCEPT ![i].pc = "wait", ![i].woken = FALSE,
                     ![i].timer = Arm(NON_ACTIVE_STATE_TIMEOUT),
                     ![i].syncRetransmission = PACKET_RETRANSMISSIONS,
                     ![i].txCount = 1, ![i].statusCount = 0]
    /\ UNCHANGED <<currentState, seqNum, ackNum, stateMachineReady>>
    /\ UNCHANGED WorkerFrame

\* INITIALIZED: a wait ended; send SYNC_CONFIG again or resolve the next state
InitializedWake(i) ==
    /\ Running(i) /\ worker[i].pc = "wait" /\ currentState[i] = STATE_INITIALIZED
    /\ \/ /\ worker[i].woken
          /\ isFullfilled(STATE_INITIALIZED, exitCriterias[i][STATE_INITIALIZED])
       \/ worker[i].timer = 0
    /\ LET e == exitCriterias[i][STATE_INITIALIZED]
           left == worker[i].syncRetransmission - 1
       IN IF ~isFullfilled(STATE_INITIALIZED, e) /\ left > 0
          THEN /\ exitCriterias' = [exitCriterias EXCEPT
                                       ![i][STATE_INITIALIZED].syncConfigSent = TRUE]
               /\ wire' = Xmit(wire, i,
                               sendControlPacket("CONTROL_PKT_SYNC_CONFIG", ackNum[i]))
               /\ out' = Out(i, <<sendControlPacket("CONTROL_PKT_SYNC_CONFIG", ackNum[i])>>,
                             <<>>, <<>>)
               /\ worker' = [worker EXCEPT ![i].woken = FALSE,
                                ![i].timer = Arm(NON_ACTIVE_STATE_TIMEOUT),
                                ![i].syncRetransmission = left,
                                ![i].txCount = @ + 1]
          ELSE LET maxed == InitializedNextState(e) = STATE_FAILED
                            /\ ~e.ioResourceError /\ left <= 0
               IN /\ out' = IF maxed
                            THEN Out(i, <<>>, <<>>,
                                     UpperStatus(i, "PKT_SEND_MAX_RETRIES_REACHED"))
                            ELSE NoOut
                  /\ worker' = [worker EXCEPT ![i].pc = "write", ![i].timer = NoTimer,
                                   ![i].syncRetransmission = left,
                                   ![i].nextState = InitializedNextState(e),
                                   ![i].statusCount = IF maxed THEN @ + 1 ELSE @]
                  /\ UNCHANGED <<exitCriterias, wire>>
    /\ UNCHANGED <<currentState, seqNum, ackNum, stateMachineReady>>
    /\ UNCHANGED WorkerFrame

\* ACTIVE: reset the record, zero both counters, report CONNECTION_ACTIVE, wait
ActiveEnter(i) ==
    /\ Running(i) /\ worker[i].pc = "enter" /\ currentState[i] = STATE_ACTIVE
    /\ exitCriterias' = [exitCriterias EXCEPT ![i][STATE_ACTIVE] =
                            ExitCriteriasReset(STATE_ACTIVE)]
    /\ seqNum' = [seqNum EXCEPT ![i] = 0]
    /\ ackNum' = [ackNum EXCEPT ![i] = 0]
    /\ out' = Out(i, <<>>, <<>>, UpperStatus(i, "CONNECTION_ACTIVE"))
    /\ worker' = [worker EXCEPT ![i].pc = "wait", ![i].woken = FALSE,
                     ![i].timer = NoTimer, ![i].txCount = 0, ![i].statusCount = 0]
    /\ UNCHANGED <<currentState, stateMachineReady, wire>>
    /\ UNCHANGED WorkerFrame

\* ACTIVE: woken with the record fulfilled; resolve the next state
ActiveWake(i) ==
    /\ Running(i) /\ worker[i].pc = "wait" /\ currentState[i] = STATE_ACTIVE
    /\ worker[i].woken
    /\ isFullfilled(STATE_ACTIVE, exitCriterias[i][STATE_ACTIVE])
    /\ worker' = [worker EXCEPT ![i].pc = "write",
                     ![i].nextState = ActiveNextState(exitCriterias[i][STATE_ACTIVE])]
    /\ out' = NoOut
    /\ UNCHANGED <<currentState, exitCriterias, seqNum, ackNum, stateMachineReady, wire>>
    /\ UNCHANGED WorkerFrame

\* a variant of stateMachineWorker whose loop goes on in FAILED and CLOSED
stateMachineWorkerLooping(i) ==
    /\ Running(i) /\ worker[i].pc = "write"
    /\ currentState' = [currentState EXCEPT ![i] = worker[i].nextState]
    /\ exitCriterias' = [exitCriterias EXCEPT ![i][currentState[i]] =
                            ExitCriteriasReset(currentState[i])]
    /\ worker' = [worker EXCEPT ![i].pc = "enter",
                     ![i].syncRetransmission = 0, ![i].woken = FALSE,
                     ![i].txCount = 0, ![i].statusCount = 0]
    /\ out' = NoOut
    /\ UNCHANGED <<seqNum, ackNum, stateMachineReady, wire>>
    /\ UNCHANGED WorkerFrame

\* stateMachineWorker: currentState = nextState, notify, leave the loop when terminal.
\* The record of the state just left is next read by that state's action, which
\* resets it first: its flags are dead from here on and the model drops them now.
stateMachineWorker(i) ==
    /\ Running(i) /\ worker[i].pc = "write"
    /\ currentState' = [currentState EXCEPT ![i] = worker[i].nextState]
    /\ exitCriterias' = [exitCriterias EXCEPT ![i][currentState[i]] =
                            ExitCriteriasReset(currentState[i])]
    /\ worker' = [worker EXCEPT ![i].pc =
                        IF worker[i].nextState \in {STATE_FAILED, STATE_CLOSED}
                        THEN "done" ELSE "enter",
                     ![i].syncRetransmission = 0, ![i].woken = FALSE,
                     ![i].txCount = 0, ![i].statusCount = 0]
    /\ out' = NoOut
    /\ UNCHANGED <<seqNum, ackNum, stateMachineReady, wire>>
    /\ UNCHANGED WorkerFrame

WorkerStep(i) ==
    \/ StartEnter(i) \/ StartBlock(i) \/ StartWake(i)
    \/ ResetEnter(i) \/ ResetWake(i)
    \/ UninitializedEnter(i) \/ UninitializedWake(i)
    \/ InitializedEnter(i) \/ InitializedWake(i)
    \/ ActiveEnter(i) \/ ActiveWake(i)
    \/ stateMachineWorker(i)

----------------------------------------------------------------------------
(* The thread calling open() and close() *)

\* a variant of OpenCall without the check of currentState
OpenCallUnguarded(i) ==
    /\ Running(i) /\ api[i].pc = "idle"
    /\ IF Joinable(i)
       THEN Terminate
       ELSE /\ upperCb' = [upperCb EXCEPT ![i] = TRUE]
            /\ currentState' = [currentState EXCEPT ![i] = STATE_START]
            /\ worker' = [worker EXCEPT ![i].pc = "enter"]
            /\ api' = [api EXCEPT ![i].pc = "ready_wait"]
            /\ out' = NoOut
            /\ UNCHANGED <<ByteVars, uart, opener, paired, timed, exitCriterias, seqNum, ackNum, lastPacket,
                           stateMachineReady, sender, lowerOpen, wire, ioSeen, testSetup,
                           crashed, callback>>

\* open(), up to startStateMachine blocking until the state machine is ready;
\* startStateMachine assigns a new thread to stateMachineThread, which terminates
\* the process when the old thread was never joined
OpenCall(i) ==
    /\ Running(i) /\ api[i].pc = "idle"
    /\ IF currentState[i] # STATE_START
       THEN /\ upperCb' = [upperCb EXCEPT ![i] = TRUE]
            /\ out' = Return(i, "open", NRF_ERROR_INTERNAL)
            /\ testSetup' = Record(i, "open", NRF_ERROR_INTERNAL)
            /\ UNCHANGED <<currentState, worker, crashed, callback, api>>
            /\ UNCHANGED <<ByteVars, uart, opener, paired, timed, exitCriterias, seqNum, ackNum, lastPacket,
                           stateMachineReady, sender, lowerOpen, wire, ioSeen>>
       ELSE IF Joinable(i)
       THEN Terminate
       ELSE /\ upperCb' = [upperCb EXCEPT ![i] = TRUE]
            /\ currentState' = [currentState EXCEPT ![i] = STATE_START]
            /\ worker' = [worker EXCEPT ![i].pc = "enter"]
            /\ api' = [api EXCEPT ![i].pc = "ready_wait"]
            /\ out' = NoOut
            /\ UNCHANGED <<ByteVars, uart, opener, paired, timed, exitCriterias, seqNum, ackNum, lastPacket,
                           stateMachineReady, sender, lowerOpen, wire, ioSeen, testSetup,
                           crashed, callback>>

\* open(), once the state machine is ready: open the lower transport, set isOpened
\* (or ioResourceError) on the START record, notify, start waiting for STATE_ACTIVE
OpenLower(i) ==
    /\ Running(i) /\ api[i].pc = "ready_wait" /\ stateMachineReady[i]
    /\ lastPacket' = [lastPacket EXCEPT ![i] = <<>>]
    /\ \E ok \in (IF paired THEN {TRUE} ELSE BOOLEAN) :
         IF ok
         THEN /\ lowerOpen' = [lowerOpen EXCEPT ![i] = TRUE]
              /\ exitCriterias' = [exitCriterias EXCEPT ![i][STATE_START].isOpened = TRUE]
              /\ api' = [api EXCEPT ![i].pc = "state_wait",
                            ![i].timer = Arm(OPEN_WAIT_TIMEOUT)]
              /\ out' = NoOut
              /\ UNCHANGED <<ioSeen, testSetup>>
         ELSE /\ exitCriterias' = [exitCriterias EXCEPT
                                      ![i][STATE_START].ioResourceError = TRUE]
              /\ api' = [api EXCEPT ![i].pc = "idle"]
              /\ ioSeen' = [ioSeen EXCEPT ![i] = TRUE]
              /\ out' = Return(i, "open", NRF_ERROR_INTERNAL)
              /\ testSetup' = Record(i, "open", NRF_ERROR_INTERNAL)
              /\ UNCHANGED lowerOpen
    /\ worker' = [worker EXCEPT ![i] = NotifyStateMachineChange(@)]
    /\ UNCHANGED <<ByteVars, uart, opener, paired, timed, currentState, seqNum, ackNum, stateMachineReady, sender,
                   upperCb, wire, crashed, callback>>

\* open(): waitForState(STATE_ACTIVE, OPEN_WAIT_TIMEOUT) returns
waitForState(i) ==
    /\ Running(i) /\ api[i].pc = "state_wait"
    /\ currentState[i] = STATE_ACTIVE \/ api[i].timer = 0
    /\ api' = [api EXCEPT ![i].pc = "idle", ![i].timer = NoTimer]
    /\ LET r == IF currentState[i] = STATE_ACTIVE THEN NRF_SUCCESS ELSE NRF_ERROR_TIMEOUT
       IN /\ out' = Return(i, "open", r)
          /\ testSetup' = Record(i, "open", r)
    /\ UNCHANGED <<ByteVars, uart, opener, paired, timed, currentState, exitCriterias, seqNum, ackNum, lastPacket,
                   stateMachineReady, worker, sender, lowerOpen, upperCb, wire,
                   crashed, callback, ioSeen>>

\* the rest of close() after stopStateMachine: close the lower transport (which
\* ends its callback thread, once that is back from dataHandler), release callbacks
CloseRest(i, a) ==
    /\ callback[i].pc = "idle"
    /\ lowerOpen' = [lowerOpen EXCEPT ![i] = FALSE]
    /\ upperCb' = [upperCb EXCEPT ![i] = FALSE]
    /\ wire' = [wire EXCEPT ![i] = <<>>]
    /\ api' = [api EXCEPT ![i] = [a EXCEPT !.pc = "idle", !.closeFrom = "none"]]
    /\ LET r == IF lowerOpen[i] THEN NRF_SUCCESS ELSE NRF_ERROR_INTERNAL
       IN /\ out' = Return(i, "close", r)
          /\ testSetup' = Record(i, "close", r)

\* close(): set close on the current state's record, notify, then join or finish
CloseCall(i) ==
    /\ Running(i) /\ api[i].pc = "idle"
    /\ exitCriterias' = IF currentState[i] \in ExitStates
                        THEN [exitCriterias EXCEPT ![i][currentState[i]].close = TRUE]
                        ELSE exitCriterias
    /\ LET a == [api[i] EXCEPT !.closeFrom = IF Joinable(i) /\ worker[i].pc # "done"
                                             THEN currentState[i] ELSE "none"]
       IN IF Joinable(i)
          THEN /\ api' = [api EXCEPT ![i] = [a EXCEPT !.pc = "join"]]
               /\ worker' = [worker EXCEPT ![i] = NotifyStateMachineChange(@)]
               /\ out' = NoOut
               /\ UNCHANGED <<lowerOpen, upperCb, wire, testSetup>>
          ELSE /\ CloseRest(i, a)
               /\ UNCHANGED worker
    /\ UNCHANGED <<ByteVars, uart, opener, paired, timed, currentState, seqNum, ackNum, lastPacket,
                   stateMachineReady, sender, crashed, callback, ioSeen>>

\* a variant of CloseJoined that does not wait for the state-machine thread to end
CloseJoinedEarly(i) ==
    /\ Running(i) /\ api[i].pc = "join"
    /\ CloseRest(i, api[i])
    /\ UNCHANGED <<ByteVars, uart, opener, paired, timed, currentState, exitCriterias, seqNum, ackNum, lastPacket,
                   stateMachineReady, sender, crashed, callback, ioSeen, worker>>

\* close(): the state-machine thread has ended and is joined
CloseJoined(i) ==
    /\ Running(i) /\ api[i].pc = "join" /\ worker[i].pc = "done"
    /\ worker' = [worker EXCEPT ![i].pc = "joined"]
    /\ CloseRest(i, api[i])
    /\ UNCHANGED <<ByteVars, uart, opener, paired, timed, currentState, exitCriterias, seqNum, ackNum, lastPacket,
                   stateMachineReady, sender, crashed, callback, ioSeen>>

----------------------------------------------------------------------------
(* Another thread calling open(), concurrently with the thread above *)

OpenerFrame == <<ByteVars, uart, paired, timed, exitCriterias, seqNum, ackNum, lastPacket,
                 stateMachineReady, sender, lowerOpen, wire, ioSeen, testSetup,
                 crashed, callback>>

\* open(): Transport::open and the check of currentState
OpenerCall(i) ==
    /\ Running(i) /\ opener[i].pc = "idle"
    /\ upperCb' = [upperCb EXCEPT ![i] = TRUE]
    /\ IF currentState[i] # STATE_START
       THEN /\ out' = Return(i, "open", NRF_ERROR_INTERNAL)
            /\ UNCHANGED opener
       ELSE /\ out' = NoOut
            /\ opener' = [opener EXCEPT ![i].pc = "start"]
    /\ UNCHANGED <<currentState, worker, api>>
    /\ UNCHANGED OpenerFrame

\* startStateMachine: currentState = STATE_START, then the check of
\* stateMachineThread.joinable(), with std::terminate when it is joinable
OpenerStart(i) ==
    /\ Running(i) /\ opener[i].pc = "start"
    /\ IF Joinable(i)
       THEN TerminateWith([currentState EXCEPT ![i] = STATE_START])
       ELSE /\ currentState' = [currentState EXCEPT ![i] = STATE_START]
            /\ opener' = [opener EXCEPT ![i].pc = "create"]
            /\ out' = NoOut
            /\ UNCHANGED <<upperCb, worker, api>>
            /\ UNCHANGED OpenerFrame

\* startStateMachine: stateMachineMutex taken, std::thread(stateMachineWorker)
\* constructed. When stateMachineThread holds no thread, this caller goes on as
\* the thread inside open() and the other one is the thread that may call open()
\* (the new thread leaves stateMachineWorker at once in a terminal state); when
\* it holds one, a second state-machine thread has started and the assignment
\* is still to come
OpenerCreate(i) ==
    /\ Running(i) /\ opener[i].pc = "create"
    /\ IF Joinable(i)
       THEN /\ opener' = [opener EXCEPT ![i] = [pc |-> "assign", thread |-> TRUE]]
            /\ UNCHANGED <<worker, api>>
       ELSE /\ api[i].pc = "idle"
            /\ worker' = [worker EXCEPT ![i].pc =
                              IF currentState[i] \in {STATE_FAILED, STATE_CLOSED}
                              THEN "done" ELSE "enter"]
            /\ api' = [api EXCEPT ![i].pc = "ready_wait"]
            /\ opener' = [opener EXCEPT ![i] = OpenerInit]
    /\ out' = NoOut
    /\ UNCHANGED <<currentState, upperCb>>
    /\ UNCHANGED OpenerFrame

\* startStateMachine: the move assignment to a stateMachineThread that is joinable
\* calls std::terminate
OpenerAssign(i) ==
    /\ Running(i) /\ opener[i].pc = "assign"
    /\ Terminate

OpenerStep(i) == OpenerCall(i) \/ OpenerStart(i) \/ OpenerCreate(i) \/ OpenerAssign(i)

\* the state-machine threads of an instance that have been started and not joined
stateMachineThreads(i) ==
    (IF Joinable(i) THEN 1 ELSE 0) + (IF opener[i].thread THEN 1 ELSE 0)

----------------------------------------------------------------------------
(* The threads calling send() *)

SenderFrame == <<ByteVars, uart, opener, paired, timed, currentState, exitCriterias, ackNum, seqNum,
                 stateMachineReady, worker, api, lowerOpen, upperCb,
                 crashed, callback, ioSeen>>

\* a variant of SendCall without the entry guard on currentState
SendCallUnguarded(i, t, data) ==
    /\ Running(i) /\ sender[i][t].pc = "idle"
    /\ lastPacket' = [lastPacket EXCEPT ![i] = <<DataFrame(i, data)>>]
    /\ sender' = [sender EXCEPT ![i][t].pc = "lock",
                     ![i][t].seqAtCall = seqNum[i],
                     ![i][t].remainingRetransmissions = PACKET_RETRANSMISSIONS]
    /\ out' = NoOut
    /\ UNCHANGED <<wire, testSetup>>
    /\ UNCHANGED SenderFrame

\* send(): the state check, the encoding and the store into lastPacket
SendCall(i, t, data) ==
    /\ Running(i) /\ sender[i][t].pc = "idle"
    /\ IF currentState[i] # STATE_ACTIVE
       THEN /\ out' = Return(i, "send", NRF_ERROR_INVALID_STATE)
            /\ testSetup' = Record(i, "send", NRF_ERROR_INVALID_STATE)
            /\ UNCHANGED <<lastPacket, sender>>
       ELSE /\ lastPacket' = [lastPacket EXCEPT ![i] = <<DataFrame(i, data)>>]
            /\ sender' = [sender EXCEPT ![i][t].pc = "lock",
                             ![i][t].seqAtCall = seqNum[i],
                             ![i][t].remainingRetransmissions = PACKET_RETRANSMISSIONS]
            /\ out' = NoOut
            /\ UNCHANGED testSetup
    /\ UNCHANGED wire
    /\ UNCHANGED SenderFrame

\* one pass of the retransmission loop: hand lastPacket to the lower transport,
\* remember seqNum, block in ackWaitCondition.wait_for (which releases ackMutex)
Transmit(i, t) ==
    /\ wire' = Xmit(wire, i, LastPacketFrame(i))
    /\ out' = Out(i, <<LastPacketFrame(i)>>, <<>>, <<>>)
    /\ sender' = [sender EXCEPT ![i][t].pc = "wait",
                     ![i][t].remainingRetransmissions = @ - 1,
                     ![i][t].seqNumBefore = seqNum[i],
                     ![i][t].timer = Arm(retransmissionInterval)]
    /\ UNCHANGED <<lastPacket, testSetup>>

\* send(): ackMutex taken, first pass of the loop
SendLock(i, t) ==
    /\ Running(i) /\ sender[i][t].pc = "lock"
    /\ Transmit(i, t)
    /\ UNCHANGED SenderFrame

\* a variant of SendReturn that leaves lastPacket as it is
SendReturnKeeping(i, t, r) ==
    /\ sender' = [sender EXCEPT ![i][t] = SenderInit]
    /\ out' = Return(i, "send", r)
    /\ testSetup' = Record(i, "send", r)
    /\ UNCHANGED <<wire, lastPacket>>

\* send() returns: lastPacket is cleared
SendReturn(i, t, r) ==
    /\ lastPacket' = [lastPacket EXCEPT ![i] = <<>>]
    /\ sender' = [sender EXCEPT ![i][t] = SenderInit]
    /\ out' = Return(i, "send", r)
    /\ testSetup' = Record(i, "send", r)
    /\ UNCHANGED wire

\* a variant of SendWake that gives up when the first wait ends without an
\* acknowledgement
SendWakeGivingUp(i, t) ==
    /\ Running(i) /\ sender[i][t].pc = "wait"
    /\ seqNum[i] # sender[i][t].seqNumBefore \/ sender[i][t].timer = 0
    /\ IF seqNum[i] # sender[i][t].seqNumBefore
       THEN SendReturn(i, t, NRF_SUCCESS)
       ELSE SendReturn(i, t, NRF_ERROR_TIMEOUT)
    /\ UNCHANGED SenderFrame

\* send(): the wait ended: return SUCCESS, run another pass, or return TIMEOUT
SendWake(i, t) ==
    /\ Running(i) /\ sender[i][t].pc = "wait"
    /\ seqNum[i] # sender[i][t].seqNumBefore \/ sender[i][t].timer = 0
    /\ IF seqNum[i] # sender[i][t].seqNumBefore
       THEN SendReturn(i, t, NRF_SUCCESS)
       ELSE IF sender[i][t].remainingRetransmissions > 0
       THEN Transmit(i, t)
       ELSE SendReturn(i, t, NRF_ERROR_TIMEOUT)
    /\ UNCHANGED SenderFrame

----------------------------------------------------------------------------
(* The lower transport's callback thread: processPacket and statusHandler *)

\* the effect of one step of processPacket: w is the wire once the packet is taken
\* off it, e the instance's exit-criteria records, tx the control packet sent (if
\* any), data the payload handed to upperDataCallback (if any), cb where the
\* callback thread is after the step
Dispatch(i, w, e, sq, ak, tx, data, notify, cb) ==
    /\ exitCriterias' = [exitCriterias EXCEPT ![i] = e]
    /\ seqNum' = [seqNum EXCEPT ![i] = sq]
    /\ ackNum' = [ackNum EXCEPT ![i] = ak]
    /\ wire' = IF tx = <<>> THEN w ELSE Xmit(w, i, tx[1])
    /\ out' = Out(i, tx, data, <<>>)
    /\ testSetup' = IF paired /\ data # <<>>
                    THEN [testSetup EXCEPT ![i].incoming = Append(@, data[1])]
                    ELSE testSetup
    /\ worker' = IF notify THEN [worker EXCEPT ![i] = NotifyStateMachineChange(@)]
                 ELSE worker
    /\ callback' = [callback EXCEPT ![i] = cb]
    /\ uart' = IF uart[i].inDataThread = "iter" /\ callback[i].pc = "idle"
               THEN [uart EXCEPT ![i].inData = Tail(@)]
               ELSE uart
    /\ UNCHANGED <<ByteVars, opener, paired, timed, currentState, lastPacket, stateMachineReady, api,
                   sender, lowerOpen, upperCb, ioSeen, crashed>>

Ignore(i, w) ==
    Dispatch(i, w, exitCriterias[i], seqNum[i], ackNum[i], <<>>, <<>>, FALSE,
             CallbackInit)

Reply(i, w, type, notify) ==
    Dispatch(i, w, exitCriterias[i], seqNum[i], ackNum[i],
             <<sendControlPacket(type, ackNum[i])>>, <<>>, notify, CallbackInit)

SetFlag(i, w, s, flag) ==
    Dispatch(i, w, [exitCriterias[i] EXCEPT ![s][flag] = TRUE], seqNum[i], ackNum[i],
             <<>>, <<>>, TRUE, CallbackInit)

\* a variant of LinkControl that leaves a SYNC_CONFIG unanswered in STATE_ACTIVE
LinkControlSilentInActive(i, p, w) ==
    LET s == currentState[i] IN
    IF s = STATE_UNINITIALIZED
    THEN IF isSyncResponsePacket(p.payload, 0)
         THEN SetFlag(i, w, STATE_UNINITIALIZED, "syncRspReceived")
         ELSE IF isSyncPacket(p.payload, 0)
         THEN Reply(i, w, "CONTROL_PKT_SYNC_RESPONSE", FALSE)
         ELSE Ignore(i, w)
    ELSE IF s = STATE_INITIALIZED
    THEN IF isSyncConfigResponsePacket(p.payload, 0)
         THEN SetFlag(i, w, STATE_INITIALIZED, "syncConfigRspReceived")
         ELSE IF isSyncConfigPacket(p.payload, 0)
         THEN Reply(i, w, "CONTROL_PKT_SYNC_CONFIG_RESPONSE", TRUE)
         ELSE IF isSyncPacket(p.payload, 0)
         THEN Reply(i, w, "CONTROL_PKT_SYNC_RESPONSE", TRUE)
         ELSE Ignore(i, w)
    ELSE IF s = STATE_ACTIVE
    THEN IF isSyncPacket(p.payload, 0)
         THEN SetFlag(i, w, STATE_ACTIVE, "syncReceived")
         ELSE Ignore(i, w)
    ELSE Ignore(i, w)

LinkControl(i, p, w) ==
    LET s == currentState[i] IN
    IF s = STATE_UNINITIALIZED
    THEN IF isSyncResponsePacket(p.payload, 0)
         THEN SetFlag(i, w, STATE_UNINITIALIZED, "syncRspReceived")
         ELSE IF isSyncPacket(p.payload, 0)
         THEN Reply(i, w, "CONTROL_PKT_SYNC_RESPONSE", FALSE)
         ELSE Ignore(i, w)
    ELSE IF s = STATE_INITIALIZED
    THEN IF isSyncConfigResponsePacket(p.payload, 0)
         THEN SetFlag(i, w, STATE_INITIALIZED, "syncConfigRspReceived")
         ELSE IF isSyncConfigPacket(p.payload, 0)
         THEN Reply(i, w, "CONTROL_PKT_SYNC_CONFIG_RESPONSE", TRUE)
         ELSE IF isSyncPacket(p.payload, 0)
         THEN Reply(i, w, "CONTROL_PKT_SYNC_RESPONSE", TRUE)
         ELSE Ignore(i, w)
    ELSE IF s = STATE_ACTIVE
    THEN IF isSyncPacket(p.payload, 0)
         THEN SetFlag(i, w, STATE_ACTIVE, "syncReceived")
         ELSE IF isSyncConfigPacket(p.payload, 0)
         THEN Reply(i, w, "CONTROL_PKT_SYNC_CONFIG_RESPONSE", FALSE)
         ELSE Ignore(i, w)
    ELSE Ignore(i, w)

\* a reliable frame in sequence is accepted: ackNum is incremented here, and read
\* again by sendControlPacket in the thread's next step (VendorSpecificAck)
VendorSpecific(i, p, w) ==
    IF currentState[i] = STATE_ACTIVE /\ p.reliable
    THEN IF p.seq = ackNum[i]
         THEN Dispatch(i, w, exitCriterias[i], seqNum[i], incrementAckNum(ackNum[i]),
                       <<>>, <<>>, FALSE, [pc |-> "ack", payload |-> p.payload])
         ELSE Reply(i, w, "CONTROL_PKT_ACK", FALSE)
    ELSE Ignore(i, w)

\* the accepted frame is acknowledged with the ackNum of this moment and its
\* payload handed to upperDataCallback
VendorSpecificAck(i) ==
    /\ Running(i) /\ callback[i].pc = "ack"
    /\ Dispatch(i, wire, exitCriterias[i], seqNum[i], ackNum[i],
                <<sendControlPacket("CONTROL_PKT_ACK", ackNum[i])>>,
                <<callback[i].payload>>, FALSE, CallbackInit)

\* an ack number one ahead of seqNum: incrementSeqNum follows in the thread's next
\* step (AckPacketIncrement), once it has ackMutex
AckPacket(i, p, w) ==
    IF p.ack = (seqNum[i] + 1) % 8
    THEN Dispatch(i, w, exitCriterias[i], seqNum[i], ackNum[i], <<>>, <<>>, FALSE,
                  [pc |-> "seq", payload |-> <<>>])
    ELSE IF p.ack = seqNum[i]
    THEN Ignore(i, w)
    ELSE IF currentState[i] = STATE_ACTIVE
    THEN SetFlag(i, w, STATE_ACTIVE, "irrecoverableSyncError")
    ELSE Terminate

\* with ackMutex: incrementSeqNum and ackWaitCondition.notify_all
AckPacketIncrement(i) ==
    /\ Running(i) /\ callback[i].pc = "seq"
    /\ Dispatch(i, wire, exitCriterias[i], incrementSeqNum(seqNum[i]), ackNum[i],
                <<>>, <<>>, FALSE, CallbackInit)

\* a variant of processPacket without the test for STATE_RESET
processPacketInReset(i, p, w) ==
    IF p.type = "LINK_CONTROL_PACKET" THEN LinkControl(i, p, w)
    ELSE IF p.type = "VENDOR_SPECIFIC_PACKET" THEN VendorSpecific(i, p, w)
    ELSE IF p.type = "ACK_PACKET" THEN AckPacket(i, p, w)
    ELSE Ignore(i, w)

processPacket(i, p, w) ==
    IF currentState[i] = STATE_RESET
    THEN Dispatch(i, w, exitCriterias[i], seqNum[i], ackNum[i], <<>>, <<>>, TRUE,
                  CallbackInit)
    ELSE IF p.type = "LINK_CONTROL_PACKET" THEN LinkControl(i, p, w)
    ELSE IF p.type = "VENDOR_SPECIFIC_PACKET" THEN VendorSpecific(i, p, w)
    ELSE IF p.type = "ACK_PACKET" THEN AckPacket(i, p, w)
    ELSE Ignore(i, w)

\* an arbitrary lower transport delivers the bytes of any one packet but a
\* reliable data frame
EnvReceive(i) ==
    /\ ~paired /\ Running(i) /\ lowerOpen[i] /\ callback[i].pc = "idle"
    /\ \E p \in EnvPackets :
         /\ (p.type = "ACK_PACKET" /\ p.ack = (seqNum[i] + 1) % 8) => seqNum[i] < MaxSeqNum
         /\ processPacket(i, p, wire)

\* an arbitrary lower transport delivers an ACK with any acknowledge number, however
\* far seqNum has advanced
EnvAnyAck(i) ==
    /\ ~paired /\ Running(i) /\ lowerOpen[i] /\ callback[i].pc = "idle"
    /\ \E a \in 0..7 : processPacket(i, Frame("ACK_PACKET", 0, a, FALSE, <<>>), wire)

\* an arbitrary lower transport delivers a reliable data frame with any sequence
\* number, however far ackNum has advanced
EnvAnyData(i) ==
    /\ ~paired /\ Running(i) /\ lowerOpen[i] /\ callback[i].pc = "idle"
    /\ \E sq \in 0..7, p \in Payloads :
         processPacket(i, Frame("VENDOR_SPECIFIC_PACKET", sq, 0, TRUE, p), wire)

\* an arbitrary lower transport delivers the bytes of a reliable data frame
EnvData(i) ==
    /\ ~paired /\ Running(i) /\ lowerOpen[i] /\ callback[i].pc = "idle"
    /\ \E p \in DataPackets :
         /\ (currentState[i] = STATE_ACTIVE /\ p.seq = ackNum[i]) => ackNum[i] < MaxAckNum
         /\ processPacket(i, p, wire)

\* a variant of EnvUndecodable that counts the packet twice
EnvUndecodableTwice(i) ==
    /\ ~paired /\ Running(i) /\ lowerOpen[i] /\ callback[i].pc = "idle"
    /\ errorPacketCount[i] < MaxErrors
    /\ errorPacketCount' = [errorPacketCount EXCEPT ![i] = @ + 2]
    /\ out' = NoOut
    /\ UNCHANGED <<c0Found, unprocessedData, byteFeed, recognition, uart, opener, paired,
                   timed, currentState, exitCriterias, seqNum, ackNum, lastPacket,
                   stateMachineReady, worker, api, sender, lowerOpen, upperCb, wire,
                   testSetup, crashed, callback, ioSeen>>

\* an arbitrary lower transport delivers a framed packet for which slip_decode, or
\* after it h5_decode, returns an error: processPacket counts it and returns
EnvUndecodable(i) ==
    /\ ~paired /\ Running(i) /\ lowerOpen[i] /\ callback[i].pc = "idle"
    /\ errorPacketCount[i] < MaxErrors
    /\ errorPacketCount' = [errorPacketCount EXCEPT ![i] = @ + 1]
    /\ out' = NoOut
    /\ UNCHANGED <<c0Found, unprocessedData, byteFeed, recognition, uart, opener, paired,
                   timed, currentState, exitCriterias, seqNum, ackNum, lastPacket,
                   stateMachineReady, worker, api, sender, lowerOpen, upperCb, wire,
                   testSetup, crashed, callback, ioSeen>>

\* VirtualUart: the peer's outDataThread hands its oldest frame to this port, whose
\* inDataThread calls back into dataHandler; a frame for a closed port is dropped
UartReceive(i) ==
    /\ paired /\ Running(i) /\ wire[Peer(i)] # <<>> /\ callback[i].pc = "idle"
    /\ LET p == Head(wire[Peer(i)])
           w == [wire EXCEPT ![Peer(i)] = Tail(@)]
       IN IF lowerOpen[i] /\ p.type # "EMPTY"
          THEN processPacket(i, p, w)
          ELSE Ignore(i, w)

\* statusHandler(IO_RESOURCES_UNAVAILABLE) called by the lower transport
statusHandler(i) ==
    /\ ~paired /\ Running(i) /\ lowerOpen[i]
    /\ exitCriterias' = IF currentState[i] \in ExitStates
                        THEN [exitCriterias EXCEPT
                                 ![i][currentState[i]].ioResourceError = TRUE]
                        ELSE exitCriterias
    /\ worker' = [worker EXCEPT ![i] = NotifyStateMachineChange(@)]
    /\ out' = Out(i, <<>>, <<>>, UpperStatus(i, "IO_RESOURCES_UNAVAILABLE"))
    /\ ioSeen' = [ioSeen EXCEPT ![i] = TRUE]
    /\ UNCHANGED <<ByteVars, uart, opener, paired, timed, currentState, seqNum, ackNum, lastPacket,
                   stateMachineReady, api, sender, lowerOpen, upperCb, wire, testSetup,
                   crashed, callback>>

----------------------------------------------------------------------------
(* The byte level of dataHandler: framing of the stream on 0xC0 *)

Byte_C0 == 192

\* the loop of dataHandler over the bytes of data; r holds c0Found,
\* unprocessedData, the local packet and the packets handed to processPacket
RECURSIVE dataHandlerLoop(_, _)
dataHandlerLoop(r, data) ==
    IF data = <<>> THEN r
    ELSE LET pushed == Append(r.packet, Head(data))
             after ==
                 IF Head(data) # Byte_C0 THEN [r EXCEPT !.packet = pushed]
                 ELSE IF ~r.c0Found
                 THEN [r EXCEPT !.c0Found = TRUE, !.packet = <<Byte_C0>>]
                 ELSE IF Len(pushed) = 2
                 THEN [r EXCEPT !.packet = <<Byte_C0>>]
                 ELSE [r EXCEPT !.framed = Append(@, pushed), !.packet = <<>>,
                                !.unprocessedData = <<>>, !.c0Found = FALSE]
         IN dataHandlerLoop(after, Tail(data))

\* a variant of dataHandler that starts every call with an empty packet
dataHandlerForgetting(c0, unprocessed, data) ==
    LET r == dataHandlerLoop([c0Found |-> c0, unprocessedData |-> unprocessed,
                              packet |-> <<>>, framed |-> <<>>], data)
    IN [c0Found |-> r.c0Found,
        unprocessedData |-> IF r.packet # <<>> THEN r.packet ELSE r.unprocessedData,
        framed |-> r.framed]

\* dataHandler: the packet starts as unprocessedData, the bytes are run through
\* the loop, what is left of the packet becomes unprocessedData
dataHandler(c0, unprocessed, data) ==
    LET r == dataHandlerLoop([c0Found |-> c0, unprocessedData |-> unprocessed,
                              packet |-> unprocessed, framed |-> <<>>], data)
    IN [c0Found |-> r.c0Found,
        unprocessedData |-> IF r.packet # <<>> THEN r.packet ELSE r.unprocessedData,
        framed |-> r.framed]

\* the lower transport hands the next length bytes of the stream to dataHandler
ByteReceive(i) ==
    /\ byteFeed.calls[i] <= MaxStream
    /\ \E length \in 0..(Len(byteFeed.bytes) - byteFeed.fed[i]) :
         LET data == SubSeq(byteFeed.bytes, byteFeed.fed[i] + 1, byteFeed.fed[i] + length)
             r == dataHandler(c0Found[i], unprocessedData[i], data)
         IN /\ c0Found' = [c0Found EXCEPT ![i] = r.c0Found]
            /\ unprocessedData' = [unprocessedData EXCEPT ![i] = r.unprocessedData]
            /\ byteFeed' = [byteFeed EXCEPT !.fed[i] = @ + length,
                                            !.calls[i] = @ + 1,
                                            !.framed[i] = @ \o r.framed]
    /\ UNCHANGED <<paired, timed, currentState, exitCriterias, seqNum, ackNum, lastPacket,
                   stateMachineReady, worker, api, sender, lowerOpen, upperCb, wire,
                   testSetup, out, crashed, callback, opener, ioSeen, recognition, uart,
                   errorPacketCount>>

----------------------------------------------------------------------------
(* The threads of VirtualUart and its two mutexes. outDataThread holds       *)
(* outDataMutex from its lock to its wait, across every injectInData of the  *)
(* batch; inDataThread holds inDataMutex from its lock to its wait, across    *)
(* every upperDataCallback (dataHandler) of the batch                         *)

UartFrame == <<ByteVars, opener, paired, timed, currentState, exitCriterias, seqNum, ackNum,
               lastPacket, stateMachineReady, worker, api, sender, lowerOpen, upperCb,
               testSetup, crashed, callback, ioSeen>>

\* outDataThread: woken with outData not empty, it locks outDataMutex and starts
\* the for_each over outData; then peer->injectInData of the next entry, which
\* locks the peer's inDataMutex (an entry for a closed peer is dropped); after the
\* last entry, erase and outDataAvailable.wait, which unlocks outDataMutex
outDataThread(i) ==
    /\ paired /\ Running(i)
    /\ \/ /\ lowerOpen[i] /\ uart[i].outDataThread = "wait" /\ wire[i] # <<>>
          /\ uart' = [uart EXCEPT ![i].outDataThread = "iter"]
          /\ UNCHANGED wire
       \/ /\ uart[i].outDataThread = "iter" /\ wire[i] = <<>>
          /\ uart' = [uart EXCEPT ![i].outDataThread = "wait"]
          /\ UNCHANGED wire
       \/ /\ uart[i].outDataThread = "iter" /\ wire[i] # <<>>
          /\ lowerOpen[Peer(i)] => uart[Peer(i)].inDataThread # "iter"
          /\ uart' = IF lowerOpen[Peer(i)]
                     THEN [uart EXCEPT ![Peer(i)].inData = Append(@, Head(wire[i]))]
                     ELSE uart
          /\ wire' = [wire EXCEPT ![i] = Tail(@)]
    /\ out' = NoOut
    /\ UNCHANGED UartFrame

\* inDataThread: woken with inData not empty, it locks inDataMutex and starts the
\* for_each over inData; then upperDataCallback (dataHandler, processPacket) of
\* the next entry; after the last entry, erase and inDataAvailable.wait, which
\* unlocks inDataMutex
inDataThread(i) ==
    /\ paired /\ Running(i)
    /\ \/ /\ lowerOpen[i] /\ uart[i].inDataThread = "wait" /\ uart[i].inData # <<>>
          /\ uart' = [uart EXCEPT ![i].inDataThread = "iter"]
          /\ out' = NoOut
          /\ UNCHANGED wire
          /\ UNCHANGED UartFrame
       \/ /\ uart[i].inDataThread = "iter" /\ uart[i].inData = <<>>
          /\ callback[i].pc = "idle"
          /\ uart' = [uart EXCEPT ![i].inDataThread = "wait"]
          /\ out' = NoOut
          /\ UNCHANGED wire
          /\ UNCHANGED UartFrame
       \/ /\ uart[i].inDataThread = "iter" /\ uart[i].inData # <<>>
          /\ callback[i].pc = "idle"
          /\ IF Head(uart[i].inData).type = "EMPTY"
             THEN Ignore(i, wire)
             ELSE processPacket(i, Head(uart[i].inData), wire)

\* VirtualUart::send locks outDataMutex: a step that hands a packet to the lower
\* transport is taken only when outDataThread does not hold it
SendFree(i) == out'.tx # <<>> => uart[i].outDataThread # "iter"

\* the pairs <<t, u>> of threads where t is blocked on a mutex that u holds:
\* outDataThread in injectInData on the peer's inDataMutex; inDataThread (in
\* processPacket) and the state-machine thread (inside its action, with
\* stateMachineMutex) in VirtualUart::send on outDataMutex; inDataThread in
\* processPacket on the stateMachineMutex of such a state-machine thread
LockWaits ==
    LET OutHolds(j) == uart[j].outDataThread = "iter"
        InHolds(j) == uart[j].inDataThread = "iter"
        WorkerInSend(j) == OutHolds(j) /\ ENABLED (WorkerStep(j) /\ out'.tx # <<>>)
    IN {<<<<j, "outDataThread">>, <<Peer(j), "inDataThread">>>> :
           j \in {k \in Inst : /\ OutHolds(k) /\ wire[k] # <<>>
                               /\ lowerOpen[Peer(k)] /\ InHolds(Peer(k))}}
       \cup {<<<<j, "inDataThread">>, <<j, "outDataThread">>>> :
                j \in {k \in Inst : /\ InHolds(k) /\ OutHolds(k)
                                    /\ ENABLED (inDataThread(k) /\ out'.tx # <<>>)}}
       \cup {<<<<j, "stateMachineThread">>, <<j, "outDataThread">>>> :
                j \in {k \in Inst : WorkerInSend(k)}}
       \cup {<<<<j, "inDataThread">>, <<j, "stateMachineThread">>>> :
                j \in {k \in Inst :
                          /\ InHolds(k) /\ WorkerInSend(k)
                          /\ currentState[k] \in {STATE_INITIALIZED, STATE_ACTIVE}
                          /\ ENABLED (inDataThread(k)
                                      /\ exitCriterias'[k] # exitCriterias[k])}}

----------------------------------------------------------------------------
(* Specification of the sending side: one instance over an arbitrary lower  *)
(* transport that delivers link-control packets, acknowledgements and       *)
(* packets of other types; a timed wait may time out at any moment          *)

ApiStep(i) == OpenLower(i) \/ waitForState(i) \/ CloseJoined(i)
CallbackStep(i) == VendorSpecificAck(i) \/ AckPacketIncrement(i)
SenderStep(i) == \E t \in Senders : SendLock(i, t) \/ SendWake(i, t)

Next ==
    \/ OpenCall("A")
    \/ CloseCall("A")
    \/ \E d \in Payloads : SendCall("A", 1, d)
    \/ ApiStep("A")
    \/ SenderStep("A")
    \/ WorkerStep("A")
    \/ EnvReceive("A")
    \/ AckPacketIncrement("A")
    \/ statusHandler("A")

Spec == Init /\ [][Next]_vars

(* Specification of the receiving side: the same instance and lower         *)
(* transport, which also delivers reliable data frames; nothing is sent     *)

RecvNext ==
    \/ OpenCall("A")
    \/ CloseCall("A")
    \/ ApiStep("A")
    \/ WorkerStep("A")
    \/ EnvReceive("A")
    \/ EnvData("A")
    \/ CallbackStep("A")
    \/ statusHandler("A")

RecvSpec == Init /\ [][RecvNext]_vars

(* Specification of the decode errors: the receiving side, where the lower   *)
(* transport also delivers packets that slip_decode or h5_decode rejects     *)

DecodeNext ==
    \/ RecvNext
    \/ EnvUndecodable("A")

DecodeSpec == Init /\ [][DecodeNext]_vars

(* The receiving side with every thread of the instance scheduled again and *)
(* again: a step of the state-machine thread or of the open()/close() caller *)
(* that stays possible is eventually taken                                   *)

FairRecvSpec ==
    /\ RecvSpec
    /\ WF_vars(WorkerStep("A"))
    /\ WF_vars(ApiStep("A"))

----------------------------------------------------------------------------
(* Specification of the test setup: two instances whose lower transports are *)
(* VirtualUarts set as each other's peer. Both are opened at once; when both  *)
(* open() calls have returned NRF_SUCCESS each side sends its payload.        *)
(* Computation takes no time and a timed wait ends at its deadline: the clock *)
(* advances only when no thread has a step to take.                           *)

InitPair ==
    /\ paired = TRUE
    /\ timed = TRUE
    /\ byteFeed = NoFeed
    /\ recognition = NoRecognition
    /\ InitCommon

\* payloadToB and payloadToA of send_receive_data, one byte of each
TestPayload(i) == IF i = "A" THEN <<170>> ELSE <<187>>

\* H5TransportTestSetup::setup: open() is called once
TestOpen(i) ==
    /\ testSetup[i].open = <<>>
    /\ OpenCall(i)

\* send_receive_data: both opened with NRF_SUCCESS, then get()->send(payload)
TestSend(i) ==
    /\ \A j \in Inst : testSetup[j].open = <<NRF_SUCCESS>>
    /\ Len(testSetup[i].send) < MaxSends
    /\ SendCall(i, 1, TestPayload(i))

PairApiStep(i) == OpenLower(i) \/ waitForState(i)

\* the steps that take no time
PairStep ==
    \E i \in Inst :
        \/ TestOpen(i)
        \/ PairApiStep(i)
        \/ WorkerStep(i)
        \/ SenderStep(i)
        \/ UartReceive(i)
        \/ CallbackStep(i)

\* the deadlines of the timed waits in progress
Timers ==
    {worker[i].timer : i \in Inst} \cup {api[i].timer : i \in Inst}
    \cup {sender[i][t].timer : i \in Inst, t \in Senders}

Elapse(timer, d) == IF timer > 0 THEN timer - d ELSE timer

\* time passes until the next deadline
Tick ==
    /\ timed
    /\ ~ENABLED PairStep
    /\ \E d \in Timers :
         /\ d > 0
         /\ \A e \in Timers : e > 0 => d <= e
         /\ worker' = [i \in Inst |-> [worker[i] EXCEPT !.timer = Elapse(@, d)]]
         /\ api' = [i \in Inst |-> [api[i] EXCEPT !.timer = Elapse(@, d)]]
         /\ sender' = [i \in Inst |->
                          [t \in Senders |-> [sender[i][t] EXCEPT !.timer = Elapse(@, d)]]]
    /\ out' = NoOut
    /\ UNCHANGED <<ByteVars, uart, opener, paired, timed, currentState, exitCriterias, seqNum, ackNum, lastPacket,
                   stateMachineReady, lowerOpen, upperCb, wire, testSetup, crashed, callback, ioSeen>>

PairNext ==
    \/ PairStep
    \/ \E i \in Inst : TestSend(i)
    \/ Tick

PairSpec == InitPair /\ [][PairNext]_vars

----------------------------------------------------------------------------
(* Specification of the locks: the test setup with the threads of the two    *)
(* VirtualUarts. Both sides are opened and the threads are scheduled in any   *)
(* order, so that a timed wait may end before a slower thread has run; a      *)
(* SYNC is sent again MaxLag times at most and a SYNC_CONFIG is sent once      *)

InitLocks ==
    /\ paired = TRUE
    /\ timed = FALSE
    /\ byteFeed = NoFeed
    /\ recognition = NoRecognition
    /\ InitCommon

LockNext ==
    \E i \in Inst :
        \/ TestOpen(i)
        \/ PairApiStep(i)
        \/ /\ WorkerStep(i) /\ SendFree(i)
           /\ worker'[i].txCount
                 <= (IF currentState[i] = STATE_UNINITIALIZED THEN MaxLag + 1 ELSE 1)
        \/ outDataThread(i)
        \/ inDataThread(i) /\ SendFree(i)

LockSpec == InitLocks /\ [][LockNext]_vars

----------------------------------------------------------------------------
(* Specification of concurrent callers of open(): the receiving side, with  *)
(* a second thread that calls open() at any time                             *)

OpenersNext ==
    \/ OpenCall("A")
    \/ CloseCall("A")
    \/ ApiStep("A")
    \/ OpenerStep("A")
    \/ WorkerStep("A")
    \/ EnvReceive("A")
    \/ statusHandler("A")

OpenersSpec == Init /\ [][OpenersNext]_vars

----------------------------------------------------------------------------
(* Specification of concurrent senders: the test setup, with both sides      *)
(* opened, and several threads calling send() on side A at any time          *)

\* a thread calls get()->send(payload) on side A once both sides are opened
ConcurrentSend(t) ==
    /\ \A j \in Inst : testSetup[j].open = <<NRF_SUCCESS>>
    /\ Len(testSetup["A"].send) < MaxSends
    /\ SendCall("A", t, TestPayload("A"))

ConcurrentNext ==
    \/ PairStep
    \/ \E t \in Senders : ConcurrentSend(t)
    \/ Tick

ConcurrentSpec == InitPair /\ [][ConcurrentNext]_vars

(* Specification of the senders' payloads: the same, with each thread        *)
(* handing a payload of its own to send()                                    *)

\* the payload thread t hands to send()
SenderPayload(t) == <<170 + t>>

OwnSend(t) ==
    /\ \A j \in Inst : testSetup[j].open = <<NRF_SUCCESS>>
    /\ Len(testSetup["A"].send) < MaxSends
    /\ SendCall("A", t, SenderPayload(t))

OwnNext ==
    \/ PairStep
    \/ \E t \in Senders : OwnSend(t)
    \/ Tick

OwnSpec == InitPair /\ [][OwnNext]_vars

----------------------------------------------------------------------------
(* Specification of the counters: the instance is opened and never closed,  *)
(* the lower transport delivers responses, ACKs and reliable data frames     *)
(* with any number, and seqNum and ackNum advance without a cap              *)

CounterNext ==
    \/ OpenCall("A")
    \/ PairApiStep("A")
    \/ WorkerStep("A")
    \/ EnvReceive("A")
    \/ EnvAnyAck("A")
    \/ EnvAnyData("A")
    \/ CallbackStep("A")

CounterSpec == Init /\ [][CounterNext]_vars

----------------------------------------------------------------------------
(* Specification of the byte reassembler: two instances are handed the same  *)
(* byte stream, each cut into chunks of its own (empty chunks included)       *)

StreamBytes == {Byte_C0, 1}

Streams == UNION {[1..n -> StreamBytes] : n \in 0..MaxStream}

InitBytes ==
    /\ paired = FALSE
    /\ timed = FALSE
    /\ byteFeed \in {[NoFeed EXCEPT !.bytes = S] : S \in Streams}
    /\ recognition = NoRecognition
    /\ InitCommon

ByteNext == \E i \in Inst : ByteReceive(i)

ByteSpec == InitBytes /\ [][ByteNext]_vars

----------------------------------------------------------------------------
(* Specification of packet recognition: checkPattern is called once, with    *)
(* the arguments of the packet_recognition test or with a packet, an offset  *)
(* and a pattern out of small sets                                            *)

TestPacket == <<255, 1, 2, 255, 1, 2, 3, 255>>
TestPattern == <<1, 2, 3>>
TestOffsets == {0, 1, 4, 8, 100}

PatternBytes == {1, 2}

Sequences(S, n) == UNION {[1..k -> S] : k \in 0..n}

Recognitions ==
    {[NoRecognition EXCEPT !.packet = TestPacket, !.offset = o, !.pattern = TestPattern] :
        o \in TestOffsets}
    \cup {[NoRecognition EXCEPT !.packet = p, !.offset = o, !.pattern = q] :
             p \in Sequences(PatternBytes, MaxPacketLen),
             o \in 0..(MaxPacketLen + 1),
             q \in Sequences(PatternBytes, MaxPatternLen)}

InitRecognition ==
    /\ paired = FALSE
    /\ timed = FALSE
    /\ byteFeed = NoFeed
    /\ recognition \in Recognitions
    /\ InitCommon

\* REQUIRE(H5Transport::checkPattern(packet, offset, pattern) == ...)
CheckPatternCall ==
    /\ ~recognition.called
    /\ recognition' = [recognition EXCEPT
                          !.called = TRUE,
                          !.result = checkPattern(recognition.packet, recognition.offset,
                                                  recognition.pattern)]
    /\ UNCHANGED <<paired, timed, currentState, exitCriterias, seqNum, ackNum, lastPacket,
                   stateMachineReady, worker, api, sender, lowerOpen, upperCb, wire,
                   testSetup, out, crashed, callback, opener, ioSeen, c0Found,
                   unprocessedData, byteFeed, uart, errorPacketCount>>

RecognitionSpec == InitRecognition /\ [][CheckPatternCall]_vars

----------------------------------------------------------------------------
(* Properties *)

Edges ==
    {<<STATE_START, STATE_RESET>>, <<STATE_START, STATE_CLOSED>>,
     <<STATE_START, STATE_FAILED>>,
     <<STATE_RESET, STATE_UNINITIALIZED>>, <<STATE_RESET, STATE_CLOSED>>,
     <<STATE_RESET, STATE_FAILED>>,
     <<STATE_UNINITIALIZED, STATE_INITIALIZED>>, <<STATE_UNINITIALIZED, STATE_CLOSED>>,
     <<STATE_UNINITIALIZED, STATE_FAILED>>,
     <<STATE_INITIALIZED, STATE_ACTIVE>>, <<STATE_INITIALIZED, STATE_CLOSED>>,
     <<STATE_INITIALIZED, STATE_FAILED>>,
     <<STATE_ACTIVE, STATE_RESET>>, <<STATE_ACTIVE, STATE_CLOSED>>,
     <<STATE_ACTIVE, STATE_FAILED>>}

HandshakeStates == {STATE_UNINITIALIZED, STATE_INITIALIZED}

\* C9: when a handshake state's loop ends with no response received, no close
\* and no IO error, 6 SYNC (or SYNC_CONFIG) packets were sent since the state was
\* entered, PKT_SEND_MAX_RETRIES_REACHED is reported once and the next state is
\* FAILED; open() returns SUCCESS only in STATE_ACTIVE and returns TIMEOUT when
\* its wait ends in STATE_FAILED; and a handshake state is always left in the end
C9_HandshakeGivesUp ==
    /\ [][\A i \in Inst :
             /\ (/\ currentState[i] \in HandshakeStates
                 /\ worker[i].pc = "wait" /\ worker'[i].pc = "write"
                 /\ ~exitCriterias[i][currentState[i]].ioResourceError
                 /\ ~exitCriterias[i][currentState[i]].close
                 /\ ~isFullfilled(currentState[i], exitCriterias[i][currentState[i]]))
                => /\ worker[i].txCount = 6
                   /\ worker'[i].statusCount = 1
                   /\ out'.status = UpperStatus(i, "PKT_SEND_MAX_RETRIES_REACHED")
                   /\ worker'[i].nextState = STATE_FAILED
             /\ (out'.inst = i /\ out'.ret = [op |-> "open", result |-> NRF_SUCCESS])
                => currentState[i] = STATE_ACTIVE
             /\ (out'.inst = i /\ out'.ret.op = "open" /\ api[i].pc = "state_wait"
                 /\ currentState[i] = STATE_FAILED)
                => out'.ret.result = NRF_ERROR_TIMEOUT]_vars
    /\ \A s \in HandshakeStates :
          (currentState["A"] = s /\ Running("A")) ~> (currentState["A"] # s \/ ~Running("A"))

\* C9 witness: the SYNC_CONFIG loop gave up, the state is FAILED and open() has
\* just returned TIMEOUT
C9_Witness ==
    /\ currentState["A"] = STATE_FAILED
    /\ ~ioSeen["A"]
    /\ out.ret = [op |-> "open", result |-> NRF_ERROR_TIMEOUT]
    /\ exitCriterias["A"][STATE_START].isOpened = FALSE
    /\ seqNum["A"] = 0

\* C3: a close() that was called in STATE_ACTIVE while the state-machine thread
\* was running, on an instance that saw no IO resource error, returns with
\* STATE_CLOSED
C3_CloseReachesClosed ==
    [][\A i \in Inst :
          (/\ api[i].pc = "join" /\ api[i].closeFrom = STATE_ACTIVE /\ ~ioSeen[i]
           /\ out'.inst = i /\ out'.ret.op = "close")
             => currentState'[i] = STATE_CLOSED]_vars

\* C10: send() called while currentState is not STATE_ACTIVE returns
\* NRF_ERROR_INVALID_STATE in the same step, hands nothing to the lower transport
\* and leaves seqNum, ackNum and lastPacket as they were
C10_SendNotActive ==
    [][\A t \in Senders, d \in Payloads :
          (currentState["A"] # STATE_ACTIVE /\ SendCall("A", t, d))
             => /\ out'.ret = [op |-> "send", result |-> NRF_ERROR_INVALID_STATE]
                /\ out'.tx = <<>>
                /\ UNCHANGED <<seqNum, ackNum, lastPacket, wire>>]_vars

\* C10 witness: send() has just returned INVALID_STATE in the middle of the
\* handshake, after an earlier session had advanced seqNum
C10_Witness ==
    /\ currentState["A"] = STATE_INITIALIZED
    /\ seqNum["A"] = 1
    /\ out.ret = [op |-> "send", result |-> NRF_ERROR_INVALID_STATE]

\* C4: when send() returns NRF_SUCCESS, seqNum is one more, modulo 8, than it
\* was when the call encoded its frame
C4_SuccessAdvancesSeqNum ==
    [][\A i \in Inst, t \in Senders :
          (/\ sender[i][t].pc = "wait" /\ sender'[i][t].pc = "idle"
           /\ out'.ret = [op |-> "send", result |-> NRF_SUCCESS])
             => seqNum'[i] = (sender[i][t].seqAtCall + 1) % 8]_vars

\* C1: with both sides of the test setup opened at once, an open() call that
\* returns has returned NRF_SUCCESS
C1_OpenSucceeds ==
    \A i \in Inst : testSetup[i].open \in {<<>>, <<NRF_SUCCESS>>}

\* C2: with both sides opened with NRF_SUCCESS, what a side's data callback has
\* been handed is at most the peer's payload once per send() the peer has
\* called, and every send() that returns has returned NRF_SUCCESS
C2_ExactDelivery ==
    \A i \in Inst :
        /\ Len(testSetup[i].incoming)
              <= Len(testSetup[Peer(i)].send)
                 + (IF sender[Peer(i)][1].pc = "idle" THEN 0 ELSE 1)
        /\ \A k \in 1..Len(testSetup[i].incoming) :
              testSetup[i].incoming[k] = TestPayload(Peer(i))
        /\ \A k \in 1..Len(testSetup[i].send) : testSetup[i].send[k] = NRF_SUCCESS

\* the number of entries of the sequence q that are equal to d
RECURSIVE Occurrences(_, _)
Occurrences(q, d) ==
    IF q = <<>> THEN 0
    ELSE (IF Head(q) = d THEN 1 ELSE 0) + Occurrences(Tail(q), d)

\* C6: the data callback of a side has been handed no payload more often than
\* the peer has submitted it to send(), counting the send() still in progress
C6_NoDuplicateDelivery ==
    \A i \in Inst :
        Occurrences(testSetup[i].incoming, TestPayload(Peer(i)))
           <= Len(testSetup[Peer(i)].send)
              + Cardinality({t \in Senders : sender[Peer(i)][t].pc # "idle"})

(* Specification of the sending side once opened: open() is called, nothing *)
(* closes the instance, and the thread calling send() is scheduled again and *)
(* again: a step it can take (take ackMutex, come back from the timed        *)
(* wait_for) is eventually taken                                             *)

SendNext ==
    \/ OpenCall("A")
    \/ PairApiStep("A")
    \/ \E d \in Payloads : SendCall("A", 1, d)
    \/ SenderStep("A")
    \/ WorkerStep("A")
    \/ EnvReceive("A")
    \/ AckPacketIncrement("A")

FairSendSpec == Init /\ [][SendNext]_vars /\ WF_vars(SenderStep("A"))

\* C11: a send() call admitted in STATE_ACTIVE returns (unless the process
\* terminates first); when it returns it has transmitted its frame at least once
\* and at most 6 times; it returns NRF_ERROR_TIMEOUT exactly when the wait after
\* the 6th transmission ended with seqNum as that pass had read it; and when it
\* returns NRF_ERROR_TIMEOUT, the call has left seqNum as it was and lastPacket
\* is empty
C11_SendBounded ==
    /\ [][\A t \in Senders :
             (sender["A"][t].pc = "wait" /\ sender'["A"][t].pc = "idle" /\ ~crashed'["A"])
                => LET transmissions == PACKET_RETRANSMISSIONS
                                           - sender["A"][t].remainingRetransmissions
                   IN /\ transmissions \in 1..6
                      /\ out'.ret.op = "send"
                      /\ out'.ret.result \in {NRF_SUCCESS, NRF_ERROR_TIMEOUT}
                      /\ (out'.ret.result = NRF_ERROR_TIMEOUT)
                            <=> (/\ transmissions = 6
                                 /\ seqNum["A"] = sender["A"][t].seqNumBefore)
                      /\ (out'.ret.result = NRF_ERROR_TIMEOUT)
                            => /\ seqNum'["A"] = sender["A"][t].seqNumBefore
                               /\ lastPacket'["A"] = <<>>]_vars
    /\ \A t \in Senders :
          (sender["A"][t].pc # "idle") ~> (sender["A"][t].pc = "idle" \/ ~Running("A"))

\* C11 witness: send() has just returned NRF_ERROR_TIMEOUT after its 6th
\* transmission, in STATE_ACTIVE, with seqNum advanced by an earlier send()
C11_Witness ==
    /\ currentState["A"] = STATE_ACTIVE
    /\ out.ret = [op |-> "send", result |-> NRF_ERROR_TIMEOUT]
    /\ seqNum["A"] = 1
    /\ lastPacket["A"] = <<>>

\* C12: open() called while currentState is not STATE_START returns
\* NRF_ERROR_INTERNAL in the same step; it starts no state-machine thread, does
\* not open the lower transport, and leaves currentState and every exit-criteria
\* flag as they were
C12_OpenNotStart ==
    [][(currentState["A"] # STATE_START /\ OpenCall("A"))
          => /\ out'.ret = [op |-> "open", result |-> NRF_ERROR_INTERNAL]
             /\ api'["A"].pc = "idle"
             /\ UNCHANGED <<worker, stateMachineReady, lowerOpen, wire,
                            currentState, exitCriterias>>]_vars

\* C12 witness: open() has just returned NRF_ERROR_INTERNAL on an instance that
\* is in STATE_ACTIVE with its state-machine thread blocked in the ACTIVE action
C12_Witness ==
    /\ currentState["A"] = STATE_ACTIVE
    /\ worker["A"].pc = "wait"
    /\ lowerOpen["A"]
    /\ out.ret = [op |-> "open", result |-> NRF_ERROR_INTERNAL]

\* C13: when the lower transport's open fails, open() sets ioResourceError on
\* the START record and returns NRF_ERROR_INTERNAL; STATE_START with that flag set
\* is never left for a state other than STATE_FAILED; and it is left in the end
C13_LowerOpenFails ==
    /\ [][/\ (/\ api["A"].pc = "ready_wait" /\ out'.inst = "A" /\ out'.ret.op = "open"
              /\ ~lowerOpen'["A"])
               => /\ exitCriterias'["A"][STATE_START].ioResourceError
                  /\ out'.ret.result = NRF_ERROR_INTERNAL
          /\ (/\ currentState["A"] = STATE_START
              /\ exitCriterias["A"][STATE_START].ioResourceError
              /\ ~lowerOpen["A"]
              /\ currentState'["A"] # STATE_START)
               => currentState'["A"] = STATE_FAILED]_vars
    /\ (/\ currentState["A"] = STATE_START
        /\ exitCriterias["A"][STATE_START].ioResourceError
        /\ ~lowerOpen["A"])
          ~> (currentState["A"] = STATE_FAILED \/ ~Running("A"))

\* C14: two instances that were handed the same bytes of one stream, in chunks
\* cut at different places, have passed the same framed packets to processPacket
\* and hold the same c0Found and unprocessedData
C14_ChunkIndependent ==
    byteFeed.fed["A"] = byteFeed.fed["B"]
       => /\ byteFeed.framed["A"] = byteFeed.framed["B"]
          /\ c0Found["A"] = c0Found["B"]
          /\ unprocessedData["A"] = unprocessedData["B"]

\* C14 witness: a stream of two packets and a restarted frame was handed to A in
\* one call and to B byte by byte after an empty chunk
C14_Witness ==
    /\ byteFeed.bytes = <<Byte_C0, 1, Byte_C0, Byte_C0, Byte_C0, 1>>
    /\ byteFeed.fed["A"] = 6 /\ byteFeed.calls["A"] = 1
    /\ byteFeed.fed["B"] = 6 /\ byteFeed.calls["B"] = 7
    /\ byteFeed.framed["B"] = <<<<Byte_C0, 1, Byte_C0>>>>
    /\ c0Found["B"] /\ unprocessedData["B"] = <<Byte_C0, 1>>

\* C15: checkPattern(packet, offset, pattern) has returned true if and only if
\* offset < |packet|, offset + |pattern| <= |packet| and packet[offset + i] =
\* pattern[i] for every i < |pattern|; it has returned false for every offset at
\* or past the end of the packet and for every pattern running past the end
C15_CheckPattern ==
    recognition.called
       => LET packet == recognition.packet
              offset == recognition.offset
              pattern == recognition.pattern
          IN /\ recognition.result
                  = (/\ offset < Len(packet)
                     /\ offset + Len(pattern) <= Len(packet)
                     /\ \A k \in 0..(Len(pattern) - 1) :
                            packet[offset + k + 1] = pattern[k + 1])
             /\ offset >= Len(packet) => ~recognition.result
             /\ offset + Len(pattern) > Len(packet) => ~recognition.result

\* C15 witness: the match of the packet_recognition test at offset 4
C15_Witness ==
    /\ recognition.packet = TestPacket
    /\ recognition.pattern = TestPattern
    /\ recognition.offset = 4
    /\ recognition.called /\ recognition.result

C17_OneOutstanding ==
    \A i \in Inst :
        Cardinality({t \in Senders : /\ sender[i][t].pc = "wait"
                                     /\ sender[i][t].seqNumBefore = seqNum[i]
                                     /\ sender[i][t].timer > 0}) <= 1

\* C18: whenever no send() call is in progress on an instance, its lastPacket
\* is empty
C18_LastPacketEmpty ==
    \A i \in Inst :
        (\A t \in Senders : sender[i][t].pc = "idle") => lastPacket[i] = <<>>

\* C18 witness: two send() calls have returned on side A, the second one just
\* now with NRF_ERROR_TIMEOUT, no call is in progress and lastPacket is empty
C18_Witness ==
    /\ Len(testSetup["A"].send) = 2
    /\ out.ret = [op |-> "send", result |-> NRF_ERROR_TIMEOUT]
    /\ \A t \in Senders : sender["A"][t].pc = "idle"
    /\ lastPacket["A"] = <<>>

\* C19: at most one state-machine thread of an instance has been started and
\* not joined, whatever open() and close() calls were made, one after the other
\* or two at a time
C19_OneStateMachineThread ==
    \A i \in Inst : stateMachineThreads(i) <= 1

\* C20: a step that changes currentState is the state-machine thread's
\* assignment in stateMachineWorker
C20_OnlyWorkerWrites ==
    [][\A i \in Inst :
          currentState'[i] # currentState[i] => stateMachineWorker(i)]_vars

\* C21: close() sets the close flag on the record of the current state before it
\* joins; the lower transport is closed only once the state-machine thread has
\* ended (or was never started), and the upper callbacks are released only with
\* the lower transport closed; when close() has returned the state-machine thread
\* is not running, it is started again by nothing but a later open(), and every
\* action of the state machine is a step of a thread that was started and has
\* not ended
C21_CloseOrder ==
    [][/\ (api["A"].pc = "idle" /\ CloseCall("A") /\ currentState["A"] \in ExitStates)
             => exitCriterias'["A"][currentState["A"]].close
       /\ (lowerOpen["A"] /\ ~lowerOpen'["A"] /\ Running("A")')
             => worker'["A"].pc \in {"off", "joined"}
       /\ (upperCb["A"] /\ ~upperCb'["A"] /\ Running("A")')
             => ~lowerOpen'["A"]
       /\ (out'.inst = "A" /\ out'.ret.op = "close")
             => /\ worker'["A"].pc \in {"off", "joined"}
                /\ ~lowerOpen'["A"] /\ ~upperCb'["A"]
       /\ (worker["A"].pc \in {"off", "joined"} /\ worker'["A"].pc \notin {"off", "joined"})
             => (api["A"].pc = "idle" /\ api'["A"].pc = "ready_wait")
       /\ WorkerStep("A") => worker["A"].pc \in {"enter", "prewait", "wait", "write"}]_vars

\* C21 witness: close() has joined the state-machine thread, closed the lower
\* transport that was open and has just returned NRF_SUCCESS in STATE_CLOSED
C21_Witness ==
    /\ out.ret = [op |-> "close", result |-> NRF_SUCCESS]
    /\ out.inst = "A"
    /\ worker["A"].pc = "joined"
    /\ currentState["A"] = STATE_CLOSED
    /\ ~lowerOpen["A"] /\ ~upperCb["A"]

\* C22: no set of threads is such that each of them holds a mutex and is blocked
\* on a mutex held by another thread of the set
C22_NoLockCycle ==
    LET waits == LockWaits
        blocked == {w[1] : w \in waits}
    IN ~ \E S \in SUBSET blocked :
             /\ S # {}
             /\ \A t \in S : \E u \in S : <<t, u>> \in waits

\* C23: once the START record is fulfilled (isOpened, ioResourceError or close
\* set) with the state-machine thread past its 'ready' notification, before or
\* inside its wait on the state-change condition, STATE_START is left in the end
C23_StartIsLeft ==
    (/\ currentState["A"] = STATE_START
     /\ worker["A"].pc \in {"prewait", "wait"}
     /\ isFullfilled(STATE_START, exitCriterias["A"][STATE_START]))
       ~> (currentState["A"] # STATE_START \/ ~Running("A"))

\* C24: in STATE_ACTIVE an ACK whose ack field is one ahead of seqNum makes the
\* callback thread go on to incrementSeqNum and the notification of the ack
\* condition, and from that comparison on seqNum stays as it was compared until
\* that increment makes it the ack field; an ACK whose ack field is seqNum changes
\* nothing; any other ACK sets irrecoverableSyncError on the ACTIVE record,
\* notifies the state-change condition and leaves seqNum as it is
C24_AckInActive ==
    [][/\ \A a \in 0..7 :
             (/\ currentState["A"] = STATE_ACTIVE /\ callback["A"].pc = "idle"
              /\ lowerOpen["A"]
              /\ processPacket("A", Frame("ACK_PACKET", 0, a, FALSE, <<>>), wire))
                => IF a = (seqNum["A"] + 1) % 8
                   THEN /\ callback'["A"].pc = "seq"
                        /\ UNCHANGED <<seqNum, exitCriterias>>
                   ELSE IF a = seqNum["A"]
                   THEN /\ UNCHANGED <<seqNum, ackNum, exitCriterias, worker, callback>>
                        /\ out' = NoOut
                   ELSE /\ exitCriterias'["A"][STATE_ACTIVE].irrecoverableSyncError
                        /\ worker'["A"] = NotifyStateMachineChange(worker["A"])
                        /\ seqNum'["A"] = seqNum["A"]
       /\ (currentState["A"] = STATE_ACTIVE /\ callback["A"].pc = "seq")
             => IF callback'["A"].pc = "seq"
                THEN seqNum'["A"] = seqNum["A"]
                ELSE seqNum'["A"] = (seqNum["A"] + 1) % 8]_vars

\* C25: an ACK processed while currentState is START, UNINITIALIZED, INITIALIZED,
\* FAILED or CLOSED is dropped: seqNum and every exit-criteria record stay as they
\* are, the callback thread has nothing left to do for it, the process does not
\* dereference a missing or wrongly typed record, and nothing is sent (looked at
\* where a second open() could not end the process in the same step)
C25_AckOutsideActive ==
    [][\A a \in 0..7 :
          (/\ currentState["A"] \in {STATE_START, STATE_UNINITIALIZED, STATE_INITIALIZED,
                                      STATE_FAILED, STATE_CLOSED}
           /\ callback["A"].pc = "idle"
           /\ lowerOpen["A"]
           /\ ~(api["A"].pc = "idle" /\ currentState["A"] = STATE_START /\ Joinable("A"))
           /\ processPacket("A", Frame("ACK_PACKET", 0, a, FALSE, <<>>), wire))
             => /\ UNCHANGED <<seqNum, exitCriterias>>
                /\ callback'["A"].pc = "idle"
                /\ ~crashed'["A"]
                /\ out'.tx = <<>>]_vars

\* C26: an ACK processed in STATE_ACTIVE while no thread is inside send() does not
\* lead to incrementSeqNum: the callback thread has nothing left to do for it and
\* seqNum stays as it is
C26_LateAckDiscarded ==
    [][\A a \in 0..7 :
          (/\ currentState["A"] = STATE_ACTIVE
           /\ callback["A"].pc = "idle"
           /\ lowerOpen["A"]
           /\ \A t \in Senders : sender["A"][t].pc = "idle"
           /\ processPacket("A", Frame("ACK_PACKET", 0, a, FALSE, <<>>), wire))
             => /\ callback'["A"].pc = "idle"
                /\ seqNum'["A"] = seqNum["A"]]_vars

\* C27: once a SYNC or an ACK that is neither seqNum nor one ahead of it has been
\* processed in STATE_ACTIVE (its flag is set on the ACTIVE record), the state
\* machine comes to STATE_RESET, unless close() is called, an IO resource error is
\* reported or the process has ended
C27_ResyncLeavesActive ==
    (/\ currentState["A"] = STATE_ACTIVE /\ Running("A")
     /\ \/ exitCriterias["A"][STATE_ACTIVE].syncReceived
        \/ exitCriterias["A"][STATE_ACTIVE].irrecoverableSyncError)
       ~> \/ currentState["A"] = STATE_RESET
          \/ api["A"].pc = "join"
          \/ ioSeen["A"]
          \/ ~Running("A")

\* C28: a LINK_CONTROL packet is answered by the dispatcher as the table says and
\* in no other way: in UNINITIALIZED a SYNC_RESPONSE sets syncRspReceived and a SYNC
\* is answered by one SYNC_RESPONSE; in INITIALIZED a SYNC_CONFIG_RESPONSE sets
\* syncConfigRspReceived, a SYNC_CONFIG is answered by one SYNC_CONFIG_RESPONSE and a
\* SYNC by one SYNC_RESPONSE; in ACTIVE a SYNC sets syncReceived and a SYNC_CONFIG is
\* answered by one SYNC_CONFIG_RESPONSE; any other pair sends nothing and leaves
\* every exit-criteria record as it is; seqNum and ackNum never change
C28_LinkControlTable ==
    [][LET kinds == {"CONTROL_PKT_SYNC", "CONTROL_PKT_SYNC_RESPONSE", "CONTROL_PKT_SYNC_CONFIG",
                     "CONTROL_PKT_SYNC_CONFIG_RESPONSE"}
           flag == <<STATE_UNINITIALIZED, "CONTROL_PKT_SYNC_RESPONSE", "syncRspReceived">>
                   :> TRUE
                   @@ <<STATE_INITIALIZED, "CONTROL_PKT_SYNC_CONFIG_RESPONSE",
                        "syncConfigRspReceived">> :> TRUE
                   @@ <<STATE_ACTIVE, "CONTROL_PKT_SYNC", "syncReceived">> :> TRUE
           answer == <<STATE_UNINITIALIZED, "CONTROL_PKT_SYNC">> :> "CONTROL_PKT_SYNC_RESPONSE"
                     @@ <<STATE_INITIALIZED, "CONTROL_PKT_SYNC_CONFIG">>
                           :> "CONTROL_PKT_SYNC_CONFIG_RESPONSE"
                     @@ <<STATE_INITIALIZED, "CONTROL_PKT_SYNC">> :> "CONTROL_PKT_SYNC_RESPONSE"
                     @@ <<STATE_ACTIVE, "CONTROL_PKT_SYNC_CONFIG">>
                           :> "CONTROL_PKT_SYNC_CONFIG_RESPONSE"
           s == currentState["A"]
      IN \A k \in kinds :
          (/\ callback["A"].pc = "idle" /\ lowerOpen["A"] /\ Running("A")
           /\ processPacket("A", Frame("LINK_CONTROL_PACKET", 0, 0, FALSE, pkt_pattern(k)),
                            wire))
             => /\ UNCHANGED <<seqNum, ackNum, currentState>>
                /\ out'.data = <<>>
                /\ IF \E f \in {"syncRspReceived", "syncConfigRspReceived", "syncReceived"} :
                         <<s, k, f>> \in DOMAIN flag
                   THEN \E f \in {"syncRspReceived", "syncConfigRspReceived",
                                  "syncReceived"} :
                           /\ <<s, k, f>> \in DOMAIN flag
                           /\ exitCriterias' = [exitCriterias EXCEPT !["A"][s][f] = TRUE]
                           /\ out'.tx = <<>>
                   ELSE IF <<s, k>> \in DOMAIN answer
                   THEN /\ UNCHANGED exitCriterias
                        /\ Len(out'.tx) = 1
                        /\ out'.tx[1].type = "LINK_CONTROL_PACKET"
                        /\ out'.tx[1].payload = pkt_pattern(answer[<<s, k>>])
                   ELSE /\ UNCHANGED exitCriterias
                        /\ out'.tx = <<>>]_vars

\* C28: a SYNC_CONFIG has been answered in STATE_ACTIVE: one SYNC_CONFIG_RESPONSE
\* has just been sent while the state-machine thread waits in the ACTIVE action
C28_Witness ==
    /\ currentState["A"] = STATE_ACTIVE
    /\ out.inst = "A"
    /\ Len(out.tx) = 1
    /\ out.tx[1].type = "LINK_CONTROL_PACKET"
    /\ out.tx[1].payload = pkt_pattern("CONTROL_PKT_SYNC_CONFIG_RESPONSE")
    /\ worker["A"].pc = "wait"

\* C29: a packet that the dispatcher of an instance in STATE_RESET takes from the
\* UART is discarded: seqNum, ackNum, every exit-criteria record and currentState
\* stay as they are, nothing is sent, nothing reaches the data callback, the
\* callback thread has nothing left to do, and of the state-machine thread only
\* the notification changes: its deadline is the same and its wait is not over
\* unless it was over before
C29_ResetDiscards ==
    [][\A i \in Inst :
          (currentState[i] = STATE_RESET /\ lowerOpen[i] /\ UartReceive(i))
             => /\ UNCHANGED <<seqNum, ackNum, exitCriterias, currentState, testSetup>>
                /\ out' = NoOut
                /\ callback'[i].pc = "idle"
                /\ worker' = [worker EXCEPT ![i] = NotifyStateMachineChange(@)]
                /\ LET over(w, e) == \/ w.woken /\ isFullfilled(STATE_RESET, e)
                                     \/ w.timer = 0
                   IN (worker[i].pc = "wait"
                       /\ over(worker'[i], exitCriterias'[i][STATE_RESET]))
                         => over(worker[i], exitCriterias[i][STATE_RESET])]_vars

\* C29: the state-machine thread is in the reset wait with time left on it, and a
\* packet has been discarded: the thread was notified, and neither close nor an IO
\* resource error is on the RESET record
C29_Witness ==
    \E i \in Inst :
       /\ currentState[i] = STATE_RESET
       /\ worker[i].pc = "wait" /\ worker[i].woken /\ worker[i].timer > 0
       /\ ~exitCriterias[i][STATE_RESET].close
       /\ ~exitCriterias[i][STATE_RESET].ioResourceError
       /\ out = NoOut

\* C30: when the action of a non-terminal state resolves its exit, the first match
\* wins: with ioResourceError on its record the next state is FAILED, also when
\* close is set; otherwise with close the next state is CLOSED, also when the
\* success flags are set; and the success edge (START to RESET, RESET to
\* UNINITIALIZED, UNINITIALIZED to INITIALIZED, INITIALIZED to ACTIVE, ACTIVE to
\* RESET) is taken only with neither of the two and with the success flags set
C30_FirstMatchWins ==
    [][LET s == currentState["A"]
           e == exitCriterias'["A"][s]
           next == worker'["A"].nextState
           edge == STATE_START :> STATE_RESET @@ STATE_RESET :> STATE_UNINITIALIZED
                   @@ STATE_UNINITIALIZED :> STATE_INITIALIZED
                   @@ STATE_INITIALIZED :> STATE_ACTIVE @@ STATE_ACTIVE :> STATE_RESET
           success == CASE s = STATE_START -> e.isOpened
                        [] s = STATE_RESET -> e.resetSent /\ e.resetWait
                        [] s = STATE_UNINITIALIZED -> e.syncSent /\ e.syncRspReceived
                        [] s = STATE_INITIALIZED -> e.syncConfigSent /\ e.syncConfigRspReceived
                        [] s = STATE_ACTIVE -> e.syncReceived \/ e.irrecoverableSyncError
       IN (/\ s \in ExitStates /\ ~crashed'["A"]
           /\ worker["A"].pc = "wait" /\ worker'["A"].pc = "write")
             => /\ e.ioResourceError => next = STATE_FAILED
                /\ (~e.ioResourceError /\ e.close) => next = STATE_CLOSED
                /\ (~e.ioResourceError /\ ~e.close /\ success) => next = edge[s]
                /\ (~e.ioResourceError /\ ~e.close /\ ~success) => next = STATE_FAILED]_vars

\* C30: the UNINITIALIZED action has resolved its exit with ioResourceError and
\* close both on its record, and the next state is FAILED
C30_Witness ==
    /\ currentState["A"] = STATE_UNINITIALIZED
    /\ worker["A"].pc = "write"
    /\ exitCriterias["A"][STATE_UNINITIALIZED].ioResourceError
    /\ exitCriterias["A"][STATE_UNINITIALIZED].close
    /\ worker["A"].nextState = STATE_FAILED

\* C31: the ACTIVE action sets seqNum and ackNum to zero and reports one
\* CONNECTION_ACTIVE; and from the moment currentState is STATE_ACTIVE until that
\* action has run, send() encodes no reliable frame with a sequence or acknowledge
\* number other than zero and the dispatcher accepts no reliable frame against an
\* ackNum other than zero
C31_ZeroedBeforeUse ==
    [][(currentState["A"] = STATE_ACTIVE /\ worker["A"].pc = "enter" /\ ~crashed'["A"])
          => /\ worker'["A"].pc # "enter"
                   => /\ seqNum'["A"] = 0 /\ ackNum'["A"] = 0
                      /\ out'.status = UpperStatus("A", "CONNECTION_ACTIVE")
             /\ (lastPacket'["A"] # lastPacket["A"] /\ lastPacket'["A"] # <<>>)
                   => lastPacket'["A"][1].seq = 0 /\ lastPacket'["A"][1].ack = 0
             /\ (callback["A"].pc = "idle" /\ callback'["A"].pc = "ack")
                   => ackNum["A"] = 0]_vars

\* C32: errorPacketCount never decreases, and a step that changes it (a packet
\* that slip_decode or h5_decode rejects) adds exactly one and does nothing else:
\* currentState, seqNum, ackNum and every exit-criteria record stay as they are,
\* nothing is handed to the lower transport or to the upper data callback
C32_DecodeErrorDropped ==
    [][/\ errorPacketCount'["A"] >= errorPacketCount["A"]
       /\ errorPacketCount'["A"] # errorPacketCount["A"]
             => /\ errorPacketCount'["A"] = errorPacketCount["A"] + 1
                /\ UNCHANGED <<currentState, seqNum, ackNum, exitCriterias, wire, testSetup,
                               worker, callback>>
                /\ out' = NoOut]_vars

\* C32: two packets were rejected and counted in an ACTIVE session that has
\* accepted a reliable frame
C32_Witness ==
    /\ errorPacketCount["A"] = 2
    /\ currentState["A"] = STATE_ACTIVE
    /\ ackNum["A"] = 1
    /\ out = NoOut

----------------------------------------------------------------------------
(* stateMachineMutex *)

\* the steps whose thread holds a lock on stateMachineMutex while it writes: the
\* state actions (locked from their first line, and again when a wait returns),
\* open() setting isOpened or ioResourceError, close() setting close,
\* statusHandler setting ioResourceError, and processPacket setting
\* syncConfigRspReceived, syncReceived or irrecoverableSyncError
LocksStateMachineMutex(i) ==
    \/ worker[i].pc # "write" /\ WorkerStep(i)
    \/ OpenLower(i)
    \/ CloseCall(i)
    \/ statusHandler(i)
    \/ /\ Running(i) /\ callback[i].pc = "idle"
       /\ \/ /\ currentState[i] = STATE_INITIALIZED
             /\ SetFlag(i, wire, STATE_INITIALIZED, "syncConfigRspReceived")
          \/ /\ currentState[i] = STATE_ACTIVE
             /\ \/ SetFlag(i, wire, STATE_ACTIVE, "syncReceived")
                \/ SetFlag(i, wire, STATE_ACTIVE, "irrecoverableSyncError")

\* C33: a step that changes currentState or an exit-criteria record of the
\* instance is taken by a thread that holds stateMachineMutex while it writes
C33_WritesUnderMutex ==
    [][(/\ \/ currentState'["A"] # currentState["A"]
           \/ exitCriterias'["A"] # exitCriterias["A"]
        /\ ~crashed'["A"])
          => LocksStateMachineMutex("A")]_vars

\* C34: a frame that a thread inside send() hands to the lower transport, in its
\* first pass or in a retransmission, is a VENDOR_SPECIFIC frame that carries the
\* payload this thread called send() with
C34_OwnFrame ==
    [][\A t \in Senders :
          (/\ sender["A"][t].pc \in {"lock", "wait"}
           /\ sender'["A"][t].pc = "wait"
           /\ sender'["A"][t].remainingRetransmissions
                 = sender["A"][t].remainingRetransmissions - 1)
             => /\ out'.inst = "A"
                /\ Len(out'.tx) = 1
                /\ out'.tx[1].type = "VENDOR_SPECIFIC_PACKET"
                /\ out'.tx[1].payload = SenderPayload(t)]_vars

\* C35: a thread inside send() hands a data frame to the lower transport, in its
\* first pass or in a retransmission, only while currentState is STATE_ACTIVE
C35_DataOnlyInActive ==
    [][\A t \in Senders :
          (/\ sender["A"][t].pc \in {"lock", "wait"}
           /\ sender'["A"][t].pc = "wait"
           /\ sender'["A"][t].remainingRetransmissions
                 = sender["A"][t].remainingRetransmissions - 1
           /\ out'.tx # <<>>)
             => currentState["A"] = STATE_ACTIVE]_vars

\* C36: every packet dataHandler has handed to processPacket has at least three
\* bytes, starts and ends with 0xC0 and has no 0xC0 in between; and between calls
\* of dataHandler c0Found is true exactly when unprocessedData is not empty and
\* starts with 0xC0, and then that is its only 0xC0
C36_Reassembler ==
    \A i \in Inst :
       /\ \A k \in 1..Len(byteFeed.framed[i]) :
             LET packet == byteFeed.framed[i][k] IN
                /\ Len(packet) >= 3
                /\ packet[1] = Byte_C0 /\ packet[Len(packet)] = Byte_C0
                /\ \A j \in 2..(Len(packet) - 1) : packet[j] # Byte_C0
       /\ c0Found[i] <=> (unprocessedData[i] # <<>> /\ unprocessedData[i][1] = Byte_C0)
       /\ c0Found[i]
             => \A j \in 2..Len(unprocessedData[i]) : unprocessedData[i][j] # Byte_C0

\* C36: dataHandler has handed on a packet in an earlier call and has since found
\* the start of the next one, of which it keeps two bytes
C36_Witness ==
    /\ byteFeed.framed["A"] # <<>>
    /\ byteFeed.calls["A"] >= 2
    /\ c0Found["A"]
    /\ Len(unprocessedData["A"]) = 2

====
